---------------------------- MODULE Spec2Model ----------------------------
(***************************************************************************)
(* A model of the credential selection core of CLIProxyAPI:                *)
(*   - sdk/cliproxy/auth/sticky_selector.go : SmartStickySelector, the     *)
(*     in-process messageIndex, extractMessageHashes, normalizeText;       *)
(*   - the Redis-backed redisMessageIndex (unnamed/part_001);              *)
(*   - the streaming fan-out of ExecuteStreamWithAuthManager               *)
(*     (unnamed/part_000).                                                 *)
(*                                                                         *)
(* Go strings are sequences of Unicode code points (naturals); a []byte    *)
(* request body is modelled by the value encoding/json decodes it to.      *)
(***************************************************************************)
EXTENDS Integers, Sequences, FiniteSets, TLC

(***************************************************************************)
(* Strings: the parts of package strings / unicode that the code uses,     *)
(* over code points below 0x10000.  Case mapping and the letter and digit  *)
(* classes cover ASCII and Latin-1, the alphabet of the model's inputs.    *)
(***************************************************************************)

\* The space character alone.
IsBlank(r) == r = 32

\* unicode.IsSpace
IsSpace(r) ==
    \/ r \in 9..13
    \/ r \in {32, 133, 160, 5760, 8232, 8233, 8239, 8287, 12288}
    \/ r \in 8192..8202

\* unicode.IsLetter (ASCII and Latin-1)
IsLetter(r) ==
    \/ r \in 65..90
    \/ r \in 97..122
    \/ r \in {170, 181, 186}
    \/ r \in 192..214
    \/ r \in 216..246
    \/ r \in 248..255

\* unicode.IsDigit (ASCII and Latin-1 hold no other Nd digit)
IsDigit(r) == r \in 48..57

\* unicode.ToLower of one rune (ASCII and Latin-1)
LowerRune(r) ==
    IF r \in 65..90 \/ (r \in 192..222 /\ r # 215) THEN r + 32 ELSE r

\* strings.ToLower
ToLower(s) == [i \in 1..Len(s) |-> LowerRune(s[i])]

\* strings.TrimSpace: s without its leading and trailing white space
TrimSpace(s) ==
    LET keep == {i \in 1..Len(s) : ~IsSpace(s[i])} IN
    IF keep = {} THEN <<>>
    ELSE SubSeq(s, CHOOSE i \in keep : \A j \in keep : i <= j,
                   CHOOSE i \in keep : \A j \in keep : j <= i)

\* strings.EqualFold, on the model's alphabet (simple case folding)
EqualFold(s, t) == ToLower(s) = ToLower(t)

\* The number of bytes of the UTF-8 encoding of a rune.
Utf8Len(r) == IF r < 128 THEN 1 ELSE IF r < 2048 THEN 2 ELSE 3

\* The UTF-8 encoding of a rune.
Utf8Rune(r) ==
    IF r < 128 THEN <<r>>
    ELSE IF r < 2048 THEN <<192 + (r \div 64), 128 + (r % 64)>>
    ELSE <<224 + (r \div 4096), 128 + ((r \div 64) % 64), 128 + (r % 64)>>

\* []byte(s).  (The recursion halves the string to stay shallow.)
RECURSIVE Utf8(_)
Utf8(s) ==
    IF s = <<>> THEN <<>>
    ELSE IF Len(s) = 1 THEN Utf8Rune(s[1])
    ELSE LET m == Len(s) \div 2 IN
         Utf8(SubSeq(s, 1, m)) \o Utf8(SubSeq(s, m + 1, Len(s)))

(***************************************************************************)
(* hash64: FNV-1a, 64 bit.  A uint64 is four 16-bit limbs, least           *)
(* significant first, so that every product stays inside TLC's integers;   *)
(* the arithmetic is modulo 2^64.                                          *)
(***************************************************************************)

Limb == 256 * 256

\* a XOR b for 0 <= a, b < 2^k
RECURSIVE XorBits(_, _, _)
XorBits(a, b, k) ==
    IF k = 0 THEN 0
    ELSE ((a + b) % 2) + 2 * XorBits(a \div 2, b \div 2, k - 1)

\* h ^= uint64(b) for a byte b
XorByte(h, b) ==
    <<(h[1] \div 256) * 256 + XorBits(h[1] % 256, b, 8), h[2], h[3], h[4]>>

\* x + y modulo 2^64
Add64(x, y) ==
    LET s1 == x[1] + y[1]
        s2 == x[2] + y[2] + (s1 \div Limb)
        s3 == x[3] + y[3] + (s2 \div Limb)
        s4 == x[4] + y[4] + (s3 \div Limb)
    IN  <<s1 % Limb, s2 % Limb, s3 % Limb, s4 % Limb>>

\* x * m modulo 2^64 for a small multiplier m
MulSmall64(x, m) ==
    LET p1 == x[1] * m
        p2 == x[2] * m + (p1 \div Limb)
        p3 == x[3] * m + (p2 \div Limb)
        p4 == x[4] * m + (p3 \div Limb)
    IN  <<p1 % Limb, p2 % Limb, p3 % Limb, p4 % Limb>>

\* x << 40 modulo 2^64
Shl40(x) ==
    <<0, 0, (x[1] % 256) * 256, (x[1] \div 256) + (x[2] % 256) * 256>>

\* h *= 0x100000001b3, the FNV 64-bit prime 2^40 + 435
MulPrime(h) == Add64(Shl40(h), MulSmall64(h, 435))

\* 0xcbf29ce484222325, the FNV 64-bit offset basis
FnvOffset64 == <<8997, 33826, 40164, 52210>>

\* The loop of FNV-1a over the bytes bs, from the hash h.  (The recursion
\* halves bs, and the test on h1 has the first half computed before the
\* second, which keeps the evaluation shallow.)
RECURSIVE FnvBytes(_, _)
FnvBytes(h, bs) ==
    IF bs = <<>> THEN h
    ELSE IF Len(bs) = 1 THEN MulPrime(XorByte(h, bs[1]))
    ELSE LET m  == Len(bs) \div 2
             h1 == FnvBytes(h, SubSeq(bs, 1, m))
         IN  IF h1[1] >= 0 THEN FnvBytes(h1, SubSeq(bs, m + 1, Len(bs))) ELSE h1

hash64(s) == FnvBytes(FnvOffset64, Utf8(s))


(***************************************************************************)
(* normalizeText (sticky_selector.go:435-471)                              *)
(***************************************************************************)

minMessageRuneLen == 16

\* The builder length at which normalizeText stops reading (line 462).
normalizeMaxBytes == 4096

\* One turn of the loop over the runes (lines 444-465).  st holds the
\* builder b, its length in bytes blen, prevSpace, textRunes, and done: the
\* loop has left through its break.
normalizeStep(st, r) ==
    IF st.done THEN st
    ELSE IF IsSpace(r)
    THEN IF st.prevSpace THEN st
         ELSE [st EXCEPT !.b = Append(@, 32), !.blen = @ + 1, !.prevSpace = TRUE]
    ELSE IF r = 0 \/ r = 65279
    THEN [st EXCEPT !.prevSpace = FALSE]
    ELSE [b         |-> Append(st.b, r),
          blen      |-> st.blen + Utf8Len(r),
          prevSpace |-> FALSE,
          textRunes |-> IF IsLetter(r) \/ IsDigit(r)
                        THEN st.textRunes + 1 ELSE st.textRunes,
          done      |-> st.blen + Utf8Len(r) >= normalizeMaxBytes]

\* The turns of the loop for s[lo..hi], in order.
RECURSIVE normalizeLoop(_, _, _, _)
normalizeLoop(st, s, lo, hi) ==
    IF lo > hi THEN st
    ELSE IF lo = hi THEN normalizeStep(st, s[lo])
    ELSE LET m   == (lo + hi) \div 2
             st1 == normalizeLoop(st, s, lo, m)
         IN  IF st1.blen >= 0 THEN normalizeLoop(st1, s, m + 1, hi) ELSE st1

\* normalizeText without the collapsing loop and without the minimum of
\* minMessageRuneLen letters and digits.
normalizeTextAnyLength(s0) == ToLower(TrimSpace(s0))

normalizeText(s0) ==
    LET s == ToLower(TrimSpace(s0)) IN
    IF s = <<>> THEN <<>>
    ELSE LET st == normalizeLoop([b |-> <<>>, blen |-> 0, prevSpace |-> FALSE,
                                  textRunes |-> 0, done |-> FALSE], s, 1, Len(s))
         IN  IF st.textRunes < minMessageRuneLen THEN <<>> ELSE TrimSpace(st.b)

(***************************************************************************)
(* Request bodies.  A body is empty, or not JSON, or the value that         *)
(* json.Unmarshal decodes it to: a string, an array, an object (a function *)
(* from keys to values), or any other value (number, boolean, null).       *)
(***************************************************************************)

JString(s) == [t |-> "string", s |-> s]
JArray(a)  == [t |-> "array", a |-> a]
JObject(f) == [t |-> "object", f |-> f]
JOther     == [t |-> "other"]

RawEmpty    == [k |-> "empty"]
RawInvalid  == [k |-> "invalid"]
RawJSON(v)  == [k |-> "json", v |-> v]

\* v, ok := m[key].(string): ok
HasString(m, key) == key \in DOMAIN m.f /\ m.f[key].t = "string"

\* if s := normalizeText(t); s != "" { hashes = append(hashes, hash64(s)) }
textHashes(t) ==
    LET s == normalizeText(t) IN IF s # <<>> THEN <<hash64(s)>> ELSE <<>>

\* One element of a content array or of an input array: its "text" string
\* when present and non-empty, else its "content" string.
partHashes(part) ==
    IF part.t # "object" THEN <<>>
    ELSE IF HasString(part, "text") /\ part.f["text"].s # <<>>
    THEN textHashes(part.f["text"].s)
    ELSE IF HasString(part, "content") /\ part.f["content"].s # <<>>
    THEN textHashes(part.f["content"].s)
    ELSE <<>>

RECURSIVE partsHashes(_)
partsHashes(parts) ==
    IF parts = <<>> THEN <<>>
    ELSE partHashes(Head(parts)) \o partsHashes(Tail(parts))

\* An element of "messages" hashed whatever its role.
messageHashesAnyRole(mm) ==
    IF mm.t # "object" \/ "content" \notin DOMAIN mm.f THEN <<>>
    ELSE LET c == mm.f["content"] IN
         IF c.t = "string" THEN textHashes(c.s)
         ELSE IF c.t = "array" THEN partsHashes(c.a)
         ELSE <<>>

\* One element of "messages" (lines 361-392).
messageHashes(mm) ==
    IF mm.t # "object" THEN <<>>
    ELSE LET role0 == IF HasString(mm, "role") THEN mm.f["role"].s ELSE <<>>
             role  == ToLower(TrimSpace(role0))
         IN  IF role # <<117, 115, 101, 114>>            \* "user"
                /\ role # <<115, 121, 115, 116, 101, 109>>  \* "system"
                /\ role # <<>>
             THEN <<>>
             ELSE IF "content" \notin DOMAIN mm.f THEN <<>>
             ELSE LET c == mm.f["content"] IN
                  IF c.t = "string" THEN textHashes(c.s)
                  ELSE IF c.t = "array" THEN partsHashes(c.a)
                  ELSE <<>>

RECURSIVE messagesHashes(_)
messagesHashes(msgs) ==
    IF msgs = <<>> THEN <<>>
    ELSE messageHashes(Head(msgs)) \o messagesHashes(Tail(msgs))

\* Deduplicate, keeping first occurrences (lines 419-431).
RECURSIVE dedupe(_, _)
dedupe(hs, seen) ==
    IF hs = <<>> THEN <<>>
    ELSE IF Head(hs) \in seen THEN dedupe(Tail(hs), seen)
    ELSE <<Head(hs)>> \o dedupe(Tail(hs), seen \cup {Head(hs)})

extractMessageHashes(raw) ==
    IF raw.k # "json" THEN <<>>
    ELSE IF raw.v.t # "object" THEN <<>>
    ELSE LET m == raw.v
             hashes ==
                 IF "messages" \in DOMAIN m.f
                 THEN IF m.f["messages"].t = "array"
                      THEN messagesHashes(m.f["messages"].a)
                      ELSE <<>>
                 ELSE IF "input" \in DOMAIN m.f
                 THEN LET v == m.f["input"] IN
                      IF v.t = "string" THEN textHashes(v.s)
                      ELSE IF v.t = "array" THEN partsHashes(v.a)
                      ELSE <<>>
                 ELSE <<>>
         IN  IF Len(hashes) > 1 THEN dedupe(hashes, {}) ELSE hashes

(***************************************************************************)
(* Bounds of the model.  The index constants of sticky_selector.go:165-169 *)
(* and the GC period of line 263 are scaled down so that their cases       *)
(* happen in a small state space; time is counted in ticks.                *)
(***************************************************************************)

\* indexMaxPerScope (100_000 in the source): hard cap per (provider|model)
indexMaxPerScope == 2

\* indexTTL (6 hours in the source), in ticks
indexTTL == 2

\* indexScanGC (4_096 in the source): max entries handled per GC pass
indexScanGC == 1

\* The GC period of Record (1024 calls in the source)
indexGCEvery == 3

\* The clock stops at MaxTime.
MaxTime == 3

\* No action takes a binding's Count above MaxCount.
MaxCount == 2

(***************************************************************************)
(* State                                                                   *)
(***************************************************************************)

VARIABLES
    idxKind,    \* SmartStickySelector.idx: "memory" (messageIndex) or "redis"
    offsets,    \* SmartStickySelector.offsets: scope -> round-robin cursor
    byKey,      \* messageIndex.byKey: scope -> (hash -> msgBinding)
    ops,        \* messageIndex.ops, kept modulo indexGCEvery (its only use)
    rdb,        \* the Redis database: key -> [val: msgBinding, exp: expiry time]
    now,        \* time.Now(), in ticks
    ret,        \* the last call and what it returned
    stuck,      \* history: the IDs a Pick of the first turn returned, minus
                \* those invalidated since
    fixedAuths, \* history: the candidate list of every round-robin Pick
    picks,      \* history: scope -> the IDs the Picks of the scope returned
    votes,      \* history: hash -> the authIDs recorded on it, in order
    recorded,   \* history: the <<scope, hash, authID>> ever recorded
    chunks,     \* the manager's chunk channel: what is in it
    chunksOpen, \* the manager has not closed the chunk channel
    emitted,    \* how many chunks the manager has sent
    fwd,        \* the forwarding goroutine: "none", "range", "send", "done",
                \* or "errsend" (blocked in its send on errChan)
    dataOpen,   \* dataChan is not closed
    errChan,    \* errChan: [buf: what is in it, open: not closed]
    delivered,  \* how many payloads the caller has received from dataChan
    ctxDone,    \* the caller has cancelled ctx
    receiving,  \* the caller is receiving from dataChan
    closed,     \* history: how often dataChan and errChan were closed
    lateSend,   \* history: a send on a closed channel has happened
    mem,        \* the heap of byte slices: cell -> bytes
    hdrs,       \* the heap of http.Header maps: cell -> (name -> values)
    pipe,       \* the pipeline's call: its entry point, slices and result,
                \* and the history of its stream (up: the chunks the manager
                \* sent, recv: the payloads the caller received)
    mgr,        \* the auth manager's call
    down,       \* the Redis commands the transport fails
    objs        \* the heap of Auth values: the manager's list, the caller's *Auth

coreVars == <<idxKind, offsets, byKey, ops, rdb, now>>
histVars == <<stuck, fixedAuths, picks, votes, recorded>>
streamVars == <<chunks, chunksOpen, emitted, fwd, dataOpen, errChan, delivered,
                ctxDone, receiving, closed, lateSend>>
callVars == <<mem, hdrs, pipe, mgr, down, objs>>
vars == <<idxKind, offsets, byKey, ops, rdb, now, ret, stuck, fixedAuths, picks,
          votes, recorded, chunks, chunksOpen, emitted, fwd, dataOpen, errChan,
          delivered, ctxDone, receiving, closed, lateSend, mem, hdrs, pipe, mgr,
          down, objs>>

\* Maps (Go maps, Redis keys) are functions with a finite domain.
EmptyMap == <<>>
Put(f, k, v) == [y \in DOMAIN f \cup {k} |-> IF y = k THEN v ELSE f[y]]
Without(f, S) == [y \in DOMAIN f \ S |-> f[y]]

\* The subsets a bounded scan can have handled: all of S when it is within
\* the bound, else any limit of them (map and SCAN order are unspecified).
ScanChoices(S, limit) ==
    IF Cardinality(S) <= limit THEN {S}
    ELSE {T \in SUBSET S : Cardinality(T) = limit}

\* An *Auth: nil, or a record with an ID and the Disabled flag.
Nil == [nil |-> TRUE, ID |-> <<>>, Disabled |-> FALSE]
Auth(id, disabled) == [nil |-> FALSE, ID |-> id, Disabled |-> disabled]

\* msgBinding
Binding(id, count, seen) == [AuthID |-> id, Count |-> count, LastSeen |-> seen]
zeroBinding == Binding(<<>>, 0, 0)

\* A candidate made from the stored ID alone.
candidateFromBinding(auths, bestID) == Auth(bestID, FALSE)

\* The first enabled candidate with the given (trimmed) ID, or nil
\* (sticky_selector.go:218-224, part_001:144-150).
RECURSIVE candidateByID(_, _)
candidateByID(auths, bestID) ==
    IF auths = <<>> THEN Nil
    ELSE LET a == Head(auths) IN
         IF ~a.nil /\ ~a.Disabled /\ TrimSpace(a.ID) = bestID THEN a
         ELSE candidateByID(Tail(auths), bestID)

(***************************************************************************)
(* messageIndex: the in-process index                                      *)
(***************************************************************************)

\* A threshold that asks for every hash.
minCoverAll(n) == n

\* No coverage threshold.
minCoverNone(n) == 0

\* The coverage threshold of messageIndex.SuggestAuth (lines 203-213).
memMinCover(n) ==
    IF n >= 9 THEN n \div 3
    ELSE IF n >= 4 THEN 2
    ELSE IF n >= 2 THEN 1
    ELSE 0

\* The table SuggestAuth and Record look at (idx.byKey[scope]).
memTable(scope) == IF scope \in DOMAIN byKey THEN byKey[scope] ELSE EmptyMap

\* scores[id]: at how many positions of msgHashes the binding is id's.
memScore(table, msgHashes, id) ==
    Cardinality({i \in 1..Len(msgHashes) :
        /\ msgHashes[i] \in DOMAIN table
        /\ table[msgHashes[i]].AuthID = id})

\* A SuggestAuth that falls back to any id that meets the threshold.
memSuggestFallback(scope, msgHashes, auths) ==
    IF scope = <<>> \/ msgHashes = <<>> \/ scope \notin DOMAIN byKey THEN {Nil}
    ELSE LET table == byKey[scope]
             ids == {id \in {table[h].AuthID : h \in DOMAIN table} \ {<<>>} :
                        /\ memScore(table, msgHashes, id) >= 1
                        /\ memScore(table, msgHashes, id) >= memMinCover(Len(msgHashes))}
         IN  IF ids = {} THEN {Nil}
             ELSE {candidateByID(auths, TrimSpace(id)) : id \in ids}

\* messageIndex.SuggestAuth: the set of values it can return.  The loop over
\* the scores map keeps the first id with the highest score, and the order
\* of a Go map is unspecified: any id with the highest score can be bestID.
memSuggestAuth(scope, msgHashes, auths) ==
    IF scope = <<>> \/ msgHashes = <<>> \/ scope \notin DOMAIN byKey THEN {Nil}
    ELSE LET table == byKey[scope]
             ids == {table[msgHashes[i]].AuthID :
                        i \in {j \in 1..Len(msgHashes) : msgHashes[j] \in DOMAIN table}}
                    \ {<<>>}
         IN  IF ids = {} THEN {Nil}
             ELSE LET bestScore == CHOOSE sc \in {memScore(table, msgHashes, id) : id \in ids} :
                                       \A id \in ids : memScore(table, msgHashes, id) <= sc
                      bestIDs == {id \in ids : memScore(table, msgHashes, id) = bestScore}
                  IN  IF bestScore < memMinCover(Len(msgHashes)) THEN {Nil}
                      ELSE {candidateByID(auths, TrimSpace(id)) : id \in bestIDs}

\* A Record that hands the binding over at the first conflict.
memRecordOneEager(table, h, authID, t) == Put(table, h, Binding(authID, 1, t))

\* One turn of the loop of Record over msgHashes (lines 239-260).
memRecordOne(table, h, authID, t) ==
    IF h \in DOMAIN table
    THEN LET b == table[h] IN
         IF b.AuthID = authID
         THEN Put(table, h, Binding(authID, b.Count + 1, t))
         ELSE IF b.Count <= 0
         THEN Put(table, h, Binding(authID, 1, t))
         ELSE Put(table, h, Binding(b.AuthID,
                                    IF b.Count - 1 < 0 THEN 0 ELSE b.Count - 1,
                                    b.LastSeen))
    ELSE Put(table, h, Binding(authID, 1, t))

RECURSIVE memRecordAll(_, _, _, _)
memRecordAll(table, msgHashes, authID, t) ==
    IF msgHashes = <<>> THEN table
    ELSE memRecordAll(memRecordOne(table, Head(msgHashes), authID, t),
                      Tail(msgHashes), authID, t)

\* A GC pass (lines 265-273 and 278-286): it deletes the entries of old it
\* meets and stops after indexScanGC deletions.
memGCPass(table, old) ==
    {Without(table, S) : S \in ScanChoices(old, indexScanGC)}

\* A GC whose second pass takes every binding not seen at this very instant.
memGCNoGrace(table, t) ==
    LET expired(tb) == {k \in DOMAIN tb : t - tb[k].LastSeen > indexTTL}
        stale(tb)   == {k \in DOMAIN tb : tb[k].LastSeen < t}
        second(tb)  == IF Cardinality(DOMAIN tb) > indexMaxPerScope
                       THEN memGCPass(tb, stale(tb))
                       ELSE {tb}
    IN  UNION {second(tb) : tb \in memGCPass(table, expired(table))}

\* The GC of Record (lines 263-288): the tables it can leave.
memGC(table, t) ==
    LET expired(tb) == {k \in DOMAIN tb : t - tb[k].LastSeen > indexTTL}
        stale(tb)   == {k \in DOMAIN tb : tb[k].LastSeen < t - (indexTTL \div 2)}
        second(tb)  == IF Cardinality(DOMAIN tb) > indexMaxPerScope
                       THEN memGCPass(tb, stale(tb))
                       ELSE {tb}
    IN  UNION {second(tb) : tb \in memGCPass(table, expired(table))}

\* messageIndex.Record: the values of (byKey, ops) it can leave.
memRecord(scope, msgHashes, authID) ==
    IF scope = <<>> \/ authID = <<>> \/ msgHashes = <<>>
    THEN {[byKey |-> byKey, ops |-> ops]}
    ELSE LET table == memRecordAll(memTable(scope), msgHashes, authID, now)
             ops1  == (ops + 1) % indexGCEvery
         IN  IF ops1 = 0 \/ Cardinality(DOMAIN table) > indexMaxPerScope
             THEN {[byKey |-> Put(byKey, scope, tb), ops |-> ops1] : tb \in memGC(table, now)}
             ELSE {[byKey |-> Put(byKey, scope, table), ops |-> ops1]}

\* An InvalidateAuth that removes nothing.
memInvalidateNothing(scope, authID0) == {[byKey |-> byKey, removed |-> 0]}

\* messageIndex.InvalidateAuth: the values of byKey it can leave, each with
\* the count it returns.
memInvalidateAuth(scope, authID0) ==
    IF scope = <<>> \/ TrimSpace(authID0) = <<>> \/ scope \notin DOMAIN byKey
    THEN {[byKey |-> byKey, removed |-> 0]}
    ELSE LET authID == TrimSpace(authID0)
             table  == byKey[scope]
             hit    == {k \in DOMAIN table :
                          \/ now - table[k].LastSeen > indexTTL
                          \/ TrimSpace(table[k].AuthID) = authID}
         IN  {[byKey |-> Put(byKey, scope, Without(table, S)),
               removed |-> Cardinality(S)] : S \in ScanChoices(hit, indexScanGC)}

(***************************************************************************)
(* redisMessageIndex: the Redis-backed index (part_001).  The transport    *)
(* fails the commands of down (MGET, GET, SET, SCAN, DEL) and answers the  *)
(* others; a key set with a TTL is gone once the TTL has passed (see Tick). *)
(***************************************************************************)

\* "msgidx"
StrPrefix ==
    <<109, 115, 103, 105, 100, 120>>

\* x \div 10 and x % 10 for a uint64 x
DivMod10(x) ==
    LET c4 == x[4]
        c3 == (c4 % 10) * Limb + x[3]
        c2 == (c3 % 10) * Limb + x[2]
        c1 == (c2 % 10) * Limb + x[1]
    IN  [q |-> <<c1 \div 10, c2 \div 10, c3 \div 10, c4 \div 10>>, r |-> c1 % 10]

\* fmt's %d of a uint64: its decimal digits
RECURSIVE Decimal(_)
Decimal(x) ==
    LET dm == DivMod10(x) IN
    IF dm.q = <<0, 0, 0, 0>> THEN <<48 + dm.r>>
    ELSE Append(Decimal(dm.q), 48 + dm.r)

\* Redis' glob matching (SCAN ... MATCH) for patterns made of literal
\* characters, '*', '?' and '\'-escapes.
RECURSIVE GlobMatch(_, _)
GlobMatch(pat, str) ==
    IF pat = <<>> THEN str = <<>>
    ELSE IF Head(pat) = 42          \* '*'
    THEN \E i \in 0..Len(str) : GlobMatch(Tail(pat), SubSeq(str, i + 1, Len(str)))
    ELSE IF str = <<>> THEN FALSE
    ELSE IF Head(pat) = 63          \* '?'
    THEN GlobMatch(Tail(pat), Tail(str))
    ELSE IF Head(pat) = 92 /\ Len(pat) >= 2   \* '\'
    THEN pat[2] = Head(str) /\ GlobMatch(SubSeq(pat, 3, Len(pat)), Tail(str))
    ELSE Head(pat) = Head(str) /\ GlobMatch(Tail(pat), Tail(str))

\* A key without its scope part.
keyNoScope(scope, hash) == <<<<>>, hash>>

\* redisMessageIndex.key: the key "prefix:scope:hash" is kept as the pair of
\* its scope part and its hash; KeyString is the string itself.  Two pairs
\* give the same string only when they are equal (the hash part is a run of
\* digits after the last ':').
key(scope, hash) == <<ToLower(TrimSpace(scope)), hash>>
KeyString(k) == StrPrefix \o <<58>> \o k[1] \o <<58>> \o Decimal(k[2])

\* The coverage threshold of redisMessageIndex.SuggestAuth (lines 128-138).
redisMinCover(n) ==
    IF n >= 9 THEN n \div 3
    ELSE IF n >= 4 THEN 2
    ELSE IF n >= 2 THEN 1
    ELSE 0

\* GET / MGET of one key, decoded: the zero msgBinding when the key is absent.
redisGet(db, k) == IF k \in DOMAIN db THEN db[k].val ELSE zeroBinding

redisScore(scope, msgHashes, id) ==
    Cardinality({i \in 1..Len(msgHashes) :
        /\ key(scope, msgHashes[i]) \in DOMAIN rdb
        /\ TrimSpace(rdb[key(scope, msgHashes[i])].val.AuthID) = id})

\* redisMessageIndex.SuggestAuth: the set of values it can return.
redisSuggestAuth(scope, msgHashes, auths) ==
    IF scope = <<>> \/ msgHashes = <<>> THEN {Nil}
    ELSE IF "MGET" \in down THEN {Nil}
    ELSE LET ids == {TrimSpace(redisGet(rdb, key(scope, msgHashes[i])).AuthID) :
                        i \in 1..Len(msgHashes)} \ {<<>>}
         IN  IF ids = {} THEN {Nil}
             ELSE LET bestScore == CHOOSE sc \in {redisScore(scope, msgHashes, id) : id \in ids} :
                                       \A id \in ids : redisScore(scope, msgHashes, id) <= sc
                      bestIDs == {id \in ids : redisScore(scope, msgHashes, id) = bestScore}
                  IN  IF bestScore < redisMinCover(Len(msgHashes)) THEN {Nil}
                      ELSE {candidateByID(auths, TrimSpace(id)) : id \in bestIDs}

\* One turn of the loop of Record (lines 163-195); authID is trimmed.  A
\* failed GET leaves the zero binding, a failed SET is ignored.
redisRecordOne(db, scope, h, authID, t) ==
    LET b  == IF "GET" \in down THEN zeroBinding ELSE redisGet(db, key(scope, h))
        b2 == IF TrimSpace(b.AuthID) = authID
              THEN Binding(b.AuthID, (IF b.Count < 0 THEN 0 ELSE b.Count) + 1, t)
              ELSE IF TrimSpace(b.AuthID) = <<>>
              THEN Binding(authID, 1, t)
              ELSE IF b.Count - 1 <= 0
              THEN Binding(authID, 1, t)
              ELSE Binding(b.AuthID, b.Count - 1, t)
    IN  IF "SET" \in down THEN db
        ELSE Put(db, key(scope, h), [val |-> b2, exp |-> t + indexTTL])

RECURSIVE redisRecordAll(_, _, _, _, _)
redisRecordAll(db, scope, msgHashes, authID, t) ==
    IF msgHashes = <<>> THEN db
    ELSE redisRecordAll(redisRecordOne(db, scope, Head(msgHashes), authID, t),
                        scope, Tail(msgHashes), authID, t)

\* redisMessageIndex.Record: the database it leaves.
redisRecord(scope, msgHashes, authID) ==
    IF scope = <<>> \/ authID = <<>> \/ msgHashes = <<>> THEN rdb
    ELSE redisRecordAll(rdb, scope, msgHashes, TrimSpace(authID), now)

\* redisMessageIndex.InvalidateAuth: the databases it can leave, each with
\* the count it returns.  The scan handles the keys that match the pattern
\* in SCAN's order and returns once it has handled indexScanGC of them.  A
\* failed SCAN or MGET ends the call (lines 215-217, 230-232); a failed DEL
\* is ignored and counted all the same (248-249).
redisInvalidateAuth(scope0, authID0) ==
    IF scope0 = <<>> \/ TrimSpace(authID0) = <<>>
    THEN {[rdb |-> rdb, removed |-> 0]}
    ELSE LET scope   == ToLower(TrimSpace(scope0))
             authID  == TrimSpace(authID0)
             pattern == StrPrefix \o <<58>> \o scope \o <<58, 42>>
             matched == {k \in DOMAIN rdb : GlobMatch(pattern, KeyString(k))}
             owned(S) == {k \in S : TrimSpace(rdb[k].val.AuthID) = authID}
             stale(S) == {k \in S : now - rdb[k].val.LastSeen > indexTTL}
         IN  IF "SCAN" \in down \/ (matched # {} /\ "MGET" \in down)
             THEN {[rdb |-> rdb, removed |-> 0]}
             ELSE {[rdb |-> IF "DEL" \in down THEN rdb
                            ELSE Without(rdb, owned(S) \cup stale(S)),
                    removed |-> Cardinality(owned(S))] :
                      S \in ScanChoices(matched, indexScanGC)}

(***************************************************************************)
(* messageIndexStore: the selector's index, of either kind                 *)
(***************************************************************************)

idxSuggestAuth(scope, msgHashes, auths) ==
    IF idxKind = "memory" THEN memSuggestAuth(scope, msgHashes, auths)
    ELSE redisSuggestAuth(scope, msgHashes, auths)

idxRecord(scope, msgHashes, authID) ==
    IF idxKind = "memory"
    THEN {[byKey |-> o.byKey, ops |-> o.ops, rdb |-> rdb] :
             o \in memRecord(scope, msgHashes, authID)}
    ELSE {[byKey |-> byKey, ops |-> ops, rdb |-> redisRecord(scope, msgHashes, authID)]}

idxInvalidateAuth(scope, authID) ==
    IF idxKind = "memory"
    THEN {[byKey |-> o.byKey, rdb |-> rdb, removed |-> o.removed] :
             o \in memInvalidateAuth(scope, authID)}
    ELSE {[byKey |-> byKey, rdb |-> o.rdb, removed |-> o.removed] :
             o \in redisInvalidateAuth(scope, authID)}

\* Every Count of the index is within the model's bound.
CountsBounded(bk, db) ==
    /\ \A sc \in DOMAIN bk : \A h \in DOMAIN bk[sc] : bk[sc][h].Count <= MaxCount
    /\ \A k \in DOMAIN db : db[k].val.Count <= MaxCount

(***************************************************************************)
(* SmartStickySelector                                                     *)
(***************************************************************************)

\* A filter that lets every candidate through.
filterNothing(auths) == auths

\* A filter that drops only the nil entries.
filterAuthsNil(auths) == SelectSeq(auths, LAMBDA a : ~a.nil)

\* The "Sanity" filter of Pick (lines 43-48).
filterAuths(auths) == SelectSeq(auths, LAMBDA a : ~a.nil /\ ~a.Disabled)

\* scope := lower(trim(provider)) + "|" + lower(trim(model))  (line 53)
scopeOf(provider, model) ==
    ToLower(TrimSpace(provider)) \o <<124>> \o ToLower(TrimSpace(model))

\* A draw that is always 0.
randFirst(n) == {0}

\* randIntn (lines 104-109): the values it can return.
randIntn(n) == IF n <= 1 THEN {0} ELSE 0..(n - 1)

\* s.offsets[k], zero when the key is absent
offsetOf(k) == IF k \in DOMAIN offsets THEN offsets[k] ELSE 0

\* "codex"
StrCodex ==
    <<99, 111, 100, 101, 120>>
\* " Codex "
StrCodexPadded ==
    <<32, 67, 111, 100, 101, 120, 32>>
\* "gemini"
StrGemini ==
    <<103, 101, 109, 105, 110, 105>>
\* "gpt-5"
StrModel ==
    <<103, 112, 116, 45, 53>>
\* "user"
StrUser ==
    <<117, 115, 101, 114>>
\* "assistant"
StrAssistant ==
    <<97, 115, 115, 105, 115, 116, 97, 110, 116>>
\* "A"
IdA ==
    <<65>>
\* "B"
IdB ==
    <<66>>

\* "Hello, please summarize this long document about distributed systems."
TextPrompt ==
    <<72, 101, 108, 108, 111, 44, 32, 112, 108, 101, 97, 115, 101, 32,
      115, 117, 109, 109, 97, 114, 105, 122, 101, 32, 116, 104, 105,
      115, 32, 108, 111, 110, 103, 32, 100, 111, 99, 117, 109, 101,
      110, 116, 32, 97, 98, 111, 117, 116, 32, 100, 105, 115, 116, 114,
      105, 98, 117, 116, 101, 100, 32, 115, 121, 115, 116, 101, 109,
      115, 46>>
\* "Sure: the document describes replication and consensus."
TextReply ==
    <<83, 117, 114, 101, 58, 32, 116, 104, 101, 32, 100, 111, 99, 117,
      109, 101, 110, 116, 32, 100, 101, 115, 99, 114, 105, 98, 101,
      115, 32, 114, 101, 112, 108, 105, 99, 97, 116, 105, 111, 110, 32,
      97, 110, 100, 32, 99, 111, 110, 115, 101, 110, 115, 117, 115, 46>>
\* "Now compare it with the Raft consensus paper, please."
TextFollowUp ==
    <<78, 111, 119, 32, 99, 111, 109, 112, 97, 114, 101, 32, 105, 116,
      32, 119, 105, 116, 104, 32, 116, 104, 101, 32, 82, 97, 102, 116,
      32, 99, 111, 110, 115, 101, 110, 115, 117, 115, 32, 112, 97, 112,
      101, 114, 44, 32, 112, 108, 101, 97, 115, 101, 46>>
\* "Write a binary search in Go with unit tests."
TextOther ==
    <<87, 114, 105, 116, 101, 32, 97, 32, 98, 105, 110, 97, 114, 121,
      32, 115, 101, 97, 114, 99, 104, 32, 105, 110, 32, 71, 111, 32,
      119, 105, 116, 104, 32, 117, 110, 105, 116, 32, 116, 101, 115,
      116, 115, 46>>
\* "hi"
TextShort ==
    <<104, 105>>

\* {"role": role, "content": text}
Message(role, text) ==
    JObject([m \in {"role", "content"} |->
                IF m = "role" THEN JString(role) ELSE JString(text)])

\* {"messages": msgs}
ChatBody(msgs) == RawJSON(JObject([m \in {"messages"} |-> JArray(msgs)]))

\* The request bodies of the model, by name: the first turn of a
\* conversation and its second turn, a turn of another conversation that
\* quotes the first conversation's prompt, and three bodies without a usable
\* message.
RequestNames == {"turn1", "turn2", "other2", "empty", "invalid", "short"}
Body(req) ==
    CASE req = "turn1"   -> ChatBody(<<Message(StrUser, TextPrompt)>>)
      [] req = "turn2"   -> ChatBody(<<Message(StrUser, TextPrompt),
                                       Message(StrAssistant, TextReply),
                                       Message(StrUser, TextFollowUp)>>)
      [] req = "other2"  -> ChatBody(<<Message(StrUser, TextOther),
                                       Message(StrUser, TextPrompt)>>)
      [] req = "empty"   -> RawEmpty
      [] req = "invalid" -> RawInvalid
      [] req = "short"   -> ChatBody(<<Message(StrUser, TextShort)>>)

\* extractMessageHashes of each body, computed once.
BodyHashes == [req \in RequestNames |-> extractMessageHashes(Body(req))]

\* "claude"
StrClaude ==
    <<99, 108, 97, 117, 100, 101>>
\* "gpt-4"
StrModelB ==
    <<103, 112, 116, 45, 52>>
\* "C"
IdC ==
    <<67>>

\* What a call leaves in ret: the call (op, scope, cands, hashes) and what
\* it returned (auth, path, removed).
Ret(op, scope, cands, hashes, auth, path, removed) ==
    [op |-> op, scope |-> scope, cands |-> cands, hashes |-> hashes,
     auth |-> auth, path |-> path, removed |-> removed]

\* A cursor that stays where it is.
rrStay(cur, n) == cur

\* next := (cur + 1) % len(filtered)  (line 92)
rrNext(cur, n) == (cur + 1) % n

\* What Pick can choose for codex when there are hashes (lines 57-73): the
\* index's suggestion, or else filtered at the index drawn.
stickyChoices(scope, msgHashes, filtered) ==
    LET n == Len(filtered) IN
    UNION {{[chosen |-> IF ~sug.nil THEN sug
                        ELSE filtered[(IF r < 0 \/ r >= n THEN 0 ELSE r) + 1],
             path   |-> IF ~sug.nil THEN "sticky" ELSE "random"] :
               r \in (IF sug.nil THEN randIntn(n) ELSE {0})} :
           sug \in idxSuggestAuth(scope, msgHashes, filtered)}

\* SmartStickySelector.Pick (lines 41-95).  path tells how the auth was
\* chosen: "sticky" (the index's suggestion), "random", "rr" (round-robin),
\* or "auth_not_found" (the error return).
Pick(provider, model, req, auths) ==
    LET filtered  == filterAuths(auths)
        scope     == scopeOf(provider, model)
        isCodex   == EqualFold(TrimSpace(provider), StrCodex)
        msgHashes == IF isCodex THEN BodyHashes[req] ELSE <<>>
        n         == Len(filtered)
    IN  IF n = 0
        THEN /\ ret' = Ret("Pick", scope, auths, <<>>, Nil, "auth_not_found", 0)
             /\ UNCHANGED coreVars
        ELSE IF isCodex /\ Len(msgHashes) > 0
        THEN \E c \in stickyChoices(scope, msgHashes, filtered) :
                \E out \in idxRecord(scope, msgHashes, c.chosen.ID) :
                   /\ CountsBounded(out.byKey, out.rdb)
                   /\ byKey' = out.byKey
                   /\ ops' = out.ops
                   /\ rdb' = out.rdb
                   /\ ret' = Ret("Pick", scope, auths, msgHashes, c.chosen, c.path, 0)
                   /\ UNCHANGED <<idxKind, offsets, now>>
        ELSE LET cur == offsetOf(scope) % n IN
             /\ offsets' = Put(offsets, scope, rrNext(cur, n))
             /\ ret' = Ret("Pick", scope, auths, msgHashes, filtered[cur + 1], "rr", 0)
             /\ UNCHANGED <<idxKind, byKey, ops, rdb, now>>

\* SmartStickySelector.InvalidateAuth (lines 333-338)
InvalidateAuth(scope, authID) ==
    \E out \in idxInvalidateAuth(scope, authID) :
        /\ byKey' = out.byKey
        /\ rdb' = out.rdb
        /\ ret' = Ret("InvalidateAuth", scope, <<Auth(authID, FALSE)>>, <<>>, Nil,
                      "", out.removed)
        /\ UNCHANGED <<idxKind, offsets, ops, now>>

\* A call of the index's SuggestAuth (messageIndexStore, lines 141-145).
SuggestAuth(scope, msgHashes, auths) ==
    \E a \in idxSuggestAuth(scope, msgHashes, auths) :
        /\ ret' = Ret("SuggestAuth", scope, auths, msgHashes, a, "", 0)
        /\ UNCHANGED coreVars

\* A call of the index's Record.
Record(scope, msgHashes, authID) ==
    \E out \in idxRecord(scope, msgHashes, authID) :
        /\ CountsBounded(out.byKey, out.rdb)
        /\ byKey' = out.byKey
        /\ ops' = out.ops
        /\ rdb' = out.rdb
        /\ ret' = Ret("Record", scope, <<Auth(authID, FALSE)>>, msgHashes, Nil, "", 0)
        /\ UNCHANGED <<idxKind, offsets, now>>

\* Time passes; Redis drops the keys whose TTL has run out.
Tick ==
    /\ now < MaxTime
    /\ now' = now + 1
    /\ rdb' = Without(rdb, {k \in DOMAIN rdb : rdb[k].exp <= now + 1})
    /\ UNCHANGED <<idxKind, offsets, byKey, ops, ret>>

(***************************************************************************)
(* The execution pipeline (part_000:167-403).  Byte slices and header maps *)
(* live in two heaps, mem and hdrs: a slice or a map is the index of its   *)
(* cell, 0 for nil, so that two names of one cell alias each other.        *)
(***************************************************************************)

StatusInternalServerError == 500
StatusBadRequest == 400

\* An error value: whether it has the StatusCode() and Headers() methods,
\* and what they return (hdr is a map of hdrs, 0 for a nil map).
NoError == [nil |-> TRUE, hasStatus |-> FALSE, code |-> 0, hasHeaders |-> FALSE, hdr |-> 0]
Err(hasStatus, code, hasHeaders, hdr) ==
    [nil |-> FALSE, hasStatus |-> hasStatus, code |-> code,
     hasHeaders |-> hasHeaders, hdr |-> hdr]

\* interfaces.ErrorMessage, and the nil *ErrorMessage
ErrorMessage(status, err, addon) ==
    [nil |-> FALSE, StatusCode |-> status, Error |-> err, Addon |-> addon]
NoMessage == [nil |-> TRUE, StatusCode |-> 0, Error |-> NoError, Addon |-> 0]

\* A slice that shares its bytes with src.
cloneBytesShared(m, src) == [mem |-> m, ptr |-> src]

\* cloneBytes (lines 381-388): the heap it leaves and the slice it returns.
cloneBytes(m, src) ==
    IF src = 0 \/ Len(m[src]) = 0 THEN [mem |-> m, ptr |-> 0]
    ELSE [mem |-> Append(m, SubSeq(m[src], 1, Len(m[src]))),
          ptr |-> Len(m) + 1]

\* A header value that is the map itself.
headerShared(h, p) == [hdrs |-> h, ptr |-> p]

\* hdr.Clone() (line 201): a new map with copies of the values.
headerClone(h, p) ==
    [hdrs |-> Append(h, [k \in DOMAIN h[p] |-> h[p][k]]), ptr |-> Len(h) + 1]

\* A status that is 500 whatever the error.
statusDefault(err) == StatusInternalServerError

\* The status of the ErrorMessage of an error (lines 192-197).
statusOf(err) ==
    IF err.hasStatus /\ err.code > 0 THEN err.code ELSE StatusInternalServerError

\* The ErrorMessage of an error (lines 192-204, again at 234-246, 280-292
\* and 303-315): the header heap it leaves and the message.
errorMessage(h, err) ==
    LET cl == IF err.hasHeaders /\ err.hdr # 0
              THEN headerClone(h, err.hdr)
              ELSE [hdrs |-> h, ptr |-> 0]
    IN  [hdrs |-> cl.hdrs, msg |-> ErrorMessage(statusOf(err), err, cl.ptr)]

\* "://"
StrSep ==
    <<58, 47, 47>>
\* "auto"
StrAuto ==
    <<97, 117, 116, 111>>
\* "nope"
StrNope ==
    <<110, 111, 112, 101>>
\* "compat"
StrCompat ==
    <<99, 111, 109, 112, 97, 116>>
\* "compat://m1"
StrCompatModel ==
    <<99, 111, 109, 112, 97, 116, 58, 47, 47, 109, 49>>
\* "other://gpt-5"
StrOtherModel ==
    <<111, 116, 104, 101, 114, 58, 47, 47, 103, 112, 116, 45, 53>>

\* "gemini-x"
StrGeminiX ==
    <<103, 101, 109, 105, 110, 105, 45, 120>>
\* "gemini-"
StrGeminiDash ==
    <<103, 101, 109, 105, 110, 105, 45>>
\* "gemini-pro"
StrGeminiPro ==
    <<103, 101, 109, 105, 110, 105, 45, 112, 114, 111>>
\* "-thinking-"
StrThinking ==
    <<45, 116, 104, 105, 110, 107, 105, 110, 103, 45>>

\* BaseAPIHandler.OpenAICompatProviders
OpenAICompatProviders == {StrCompat, StrGeminiX}

\* strings.Index: where sep first occurs in s, 0 when it does not.
IndexOf(s, sep) ==
    LET at == {i \in 1..(Len(s) - Len(sep) + 1) : SubSeq(s, i, i + Len(sep) - 1) = sep}
    IN  IF at = {} THEN 0 ELSE CHOOSE i \in at : \A j \in at : i <= j

\* parseDynamicModel (lines 357-379)
parseDynamicModel(modelName) ==
    LET i            == IndexOf(modelName, StrSep)
        providerPart == IF i = 0 THEN <<>> ELSE SubSeq(modelName, 1, i - 1)
        modelPart    == IF i = 0 THEN <<>>
                        ELSE SubSeq(modelName, i + Len(StrSep), Len(modelName))
    IN  IF providerPart # <<>> /\ providerPart \in OpenAICompatProviders
        THEN [providerName |-> providerPart, model |-> modelPart, isDynamic |-> TRUE]
        ELSE [providerName |-> <<>>, model |-> modelName, isDynamic |-> FALSE]

\* util.ResolveAutoModel: "auto" stands for a model of the table.
ResolveAutoModel(modelName) == IF modelName = StrAuto THEN StrModel ELSE modelName

\* util.GetProviderName: the table of the providers that serve a model.
GetProviderName(model) ==
    IF model = StrModel THEN <<StrCodex>>
    ELSE IF model = StrGeminiPro THEN <<StrGemini>>
    ELSE <<>>

\* Where the last "-thinking-" of s begins, 0 when there is none.
LastIndexOf(s, sep) ==
    LET at == {i \in 1..(Len(s) - Len(sep) + 1) : SubSeq(s, i, i + Len(sep) - 1) = sep}
    IN  IF at = {} THEN 0 ELSE CHOOSE i \in at : \A j \in at : i >= j

\* normalizeModelMetadata (lines 390-392), that is
\* util.NormalizeGeminiThinkingModel: on a Gemini model name that ends in
\* "-thinking-<N>" the suffix is stripped and N is the thinking budget of
\* the metadata; any other name is returned as it is with nil metadata
\* (<<>>).
normalizeModelMetadata(modelName) ==
    LET i      == LastIndexOf(ToLower(modelName), StrThinking)
        digits == SubSeq(modelName, i + Len(StrThinking), Len(modelName))
    IN  IF /\ Len(modelName) >= Len(StrGeminiDash)
           /\ SubSeq(ToLower(modelName), 1, Len(StrGeminiDash)) = StrGeminiDash
           /\ i > 0
           /\ digits # <<>>
           /\ \A k \in 1..Len(digits) : IsDigit(digits[k])
        THEN [model |-> SubSeq(modelName, 1, i - 1), metadata |-> digits]
        ELSE [model |-> modelName, metadata |-> <<>>]

\* A resolution that never fails.
noProvidersNever(providers) == FALSE

\* len(providers) == 0 (line 346)
noProviders(providers) == Len(providers) = 0

\* getRequestDetails (lines 326-355): normalizeModelMetadata is applied to
\* the resolved name before the dynamic route is looked at, and its
\* metadata is returned on both routes.
getRequestDetails(modelName) ==
    LET resolved  == ResolveAutoModel(modelName)
        dyn       == parseDynamicModel(resolved)
        norm      == normalizeModelMetadata(resolved)
        providers == IF dyn.isDynamic THEN <<dyn.providerName>>
                     ELSE GetProviderName(norm.model)
        model     == IF dyn.isDynamic THEN dyn.model ELSE norm.model
    IN  IF noProviders(providers)
        THEN [providers |-> <<>>, normalizedModel |-> <<>>, metadata |-> <<>>,
              err |-> ErrorMessage(StatusBadRequest, Err(FALSE, 0, FALSE, 0), 0)]
        ELSE [providers |-> providers, normalizedModel |-> model,
              metadata |-> norm.metadata, err |-> NoMessage]

\* The three entry points.
Entries == {"unary", "count", "stream"}

\* The slices the pipeline and its neighbours hold, by role: the caller's
\* rawJSON, req.Payload, opts.OriginalRequest, the manager's resp.Payload or
\* chunk.Payload, and the bytes handed to the caller.
Roles == {"raw", "payload", "original", "resp", "out"}
slice(role) ==
    CASE role = "raw"      -> pipe.raw
      [] role = "payload"  -> pipe.payload
      [] role = "original" -> pipe.original
      [] role = "resp"     -> pipe.resp
      [] role = "out"      -> pipe.out

\* The call of an entry point up to the call of the manager (lines 169-190,
\* 211-232, 253-277), or its return when the model has no provider.
BeginCall(entry, modelName, rawJSON) ==
    /\ pipe.stage = "idle"
    /\ LET d  == getRequestDetails(modelName)
           c1 == cloneBytes(mem, rawJSON)
           c2 == cloneBytes(c1.mem, rawJSON)
           p  == [pipe EXCEPT !.entry = entry, !.raw = rawJSON,
                              !.sent = IF rawJSON = 0 THEN <<>> ELSE mem[rawJSON]]
       IN  IF ~d.err.nil
           THEN /\ pipe' = [p EXCEPT !.stage = "returned",
                                     !.errMsg = IF entry = "stream" THEN NoMessage ELSE d.err]
                /\ IF entry = "stream"
                   THEN /\ errChan' = [buf |-> <<d.err>>, open |-> FALSE]
                        /\ closed' = [closed EXCEPT !.err = @ + 1]
                   ELSE UNCHANGED <<errChan, closed>>
                /\ UNCHANGED <<mem, mgr>>
           ELSE /\ pipe' = [p EXCEPT !.stage = "calling", !.payload = c1.ptr,
                                     !.original = c2.ptr, !.mgrCalls = @ + 1]
                /\ mem' = c2.mem
                /\ mgr' = [mgr EXCEPT !.state = "called", !.providers = d.providers]
                /\ UNCHANGED <<errChan, closed>>
    /\ UNCHANGED <<hdrs, chunks, chunksOpen, emitted, fwd, dataOpen, delivered,
                   ctxDone, receiving, lateSend>>

\* The rest of the entry point, from the manager's return (lines 190-206,
\* 232-248, 277-323).
FinishCall ==
    /\ pipe.stage = "calling"
    /\ mgr.state = "done"
    /\ IF ~mgr.result.err.nil
       THEN LET em == errorMessage(hdrs, mgr.result.err) IN
            /\ hdrs' = em.hdrs
            /\ pipe' = [pipe EXCEPT !.stage = "returned",
                                    !.errMsg = IF pipe.entry = "stream" THEN NoMessage ELSE em.msg]
            /\ IF pipe.entry = "stream"
               THEN /\ errChan' = [buf |-> <<em.msg>>, open |-> FALSE]
                    /\ closed' = [closed EXCEPT !.err = @ + 1]
               ELSE UNCHANGED <<errChan, closed>>
            /\ UNCHANGED <<mem, fwd, dataOpen, chunksOpen, receiving>>
       ELSE IF pipe.entry = "stream"
       THEN /\ pipe' = [pipe EXCEPT !.stage = "returned"]
            /\ fwd' = "range"
            /\ dataOpen' = TRUE
            /\ errChan' = [buf |-> <<>>, open |-> TRUE]
            /\ chunksOpen' = TRUE
            /\ receiving' = TRUE
            /\ UNCHANGED <<mem, hdrs, closed>>
       ELSE LET cl == cloneBytes(mem, mgr.result.Payload) IN
            /\ mem' = cl.mem
            /\ pipe' = [pipe EXCEPT !.stage = "returned", !.resp = mgr.result.Payload,
                                    !.got = mem[mgr.result.Payload], !.out = cl.ptr]
            /\ UNCHANGED <<hdrs, errChan, closed, fwd, dataOpen, chunksOpen, receiving>>
    /\ UNCHANGED <<mgr, chunks, emitted, delivered, ctxDone, lateSend>>

\* b ^ 1 for a byte b
Flip(b) == IF b % 2 = 0 THEN b + 1 ELSE b - 1

\* Whoever holds a slice writes to its first byte: the caller to rawJSON and
\* to what it was handed, the manager and the executor to theirs.
Write(role) ==
    /\ role \in Roles \ pipe.touched
    /\ pipe.stage # "idle"
    /\ fwd # "send"
    /\ slice(role) # 0
    /\ mem' = [mem EXCEPT ![slice(role)] = [@ EXCEPT ![1] = Flip(@)]]
    /\ pipe' = [pipe EXCEPT !.touched = @ \cup {role}]
    /\ UNCHANGED <<hdrs, mgr, streamVars>>

\* "Retry-After: 12", and what its owner changes it to
StrRetryAfter == "Retry-After"
StrTwelve ==
    <<49, 50>>
StrNinety ==
    <<57, 48>>
HdrRetry == [k \in {StrRetryAfter} |-> <<StrTwelve>>]

\* The ErrorMessages the call has produced: the one returned, or those sent
\* on errChan.
errorRecords ==
    ({pipe.errMsg} \ {NoMessage}) \cup {errChan.buf[i] : i \in 1..Len(errChan.buf)}

\* The owner of the error's header map sets Retry-After anew, after the
\* pipeline has made its ErrorMessage of the error.
HeaderWrite ==
    /\ errorRecords # {}
    /\ hdrs[1] = HdrRetry
    /\ hdrs' = [hdrs EXCEPT ![1] = [@ EXCEPT ![StrRetryAfter] = <<StrNinety>>]]
    /\ UNCHANGED <<mem, pipe, mgr, streamVars>>

(***************************************************************************)
(* ExecuteStreamWithAuthManager (part_000:253-324) once the manager has    *)
(* returned its chunk channel: the forwarding goroutine, the manager that  *)
(* feeds it, and the caller that receives from dataChan and can cancel.    *)
(***************************************************************************)

\* The manager sends at most MaxChunks chunks.
MaxChunks == 3

\* A chunk carries a payload, an empty payload, or an error.
ChunkKinds == {"payload", "empty", "err"}

\* The error of an error chunk: 429 with the header map hdrs[1].
ErrRateLimited == Err(TRUE, 429, TRUE, 1)

\* The payload of the chunk after i others: "data0", "data1", ...
ChunkBytes(i) ==
    <<100, 97, 116, 97, 48 + i>>

\* A channel without room.
chanCapNone(ch) == 0

\* The capacity of the two channels: make(chan []byte) and
\* make(chan *interfaces.ErrorMessage, 1) (lines 296-297).
chanCap(ch) == IF ch = "err" THEN 1 ELSE 0

\* A test that lets no chunk through.
hasPayloadNever(m, chunk) == FALSE

\* len(chunk.Payload) > 0 (line 318)
hasPayload(m, chunk) == chunk.Payload # 0 /\ Len(m[chunk.Payload]) > 0

\* coreexecutor.StreamChunk
StreamChunk(payload, err) == [Payload |-> payload, Err |-> err]

\* The manager sends a chunk; once ctx is cancelled it sends no more data.
UpstreamSend(c) ==
    /\ fwd # "none"
    /\ chunksOpen
    /\ emitted < MaxChunks
    /\ ctxDone => c = "err"
    /\ IF c = "payload"
       THEN /\ mem' = Append(mem, ChunkBytes(emitted))
            /\ chunks' = Append(chunks, StreamChunk(Len(mem) + 1, NoError))
       ELSE /\ chunks' = Append(chunks, StreamChunk(0, IF c = "err" THEN ErrRateLimited
                                                       ELSE NoError))
            /\ UNCHANGED mem
    /\ emitted' = emitted + 1
    /\ pipe' = [pipe EXCEPT !.up = Append(@, [kind |-> c,
                                              bytes |-> IF c = "payload" THEN ChunkBytes(emitted)
                                                        ELSE <<>>])]
    /\ UNCHANGED <<chunksOpen, fwd, dataOpen, errChan, delivered, ctxDone, receiving,
                   closed, lateSend, hdrs, mgr>>

\* The manager closes the chunk channel.
UpstreamClose ==
    /\ fwd # "none"
    /\ chunksOpen
    /\ chunksOpen' = FALSE
    /\ UNCHANGED <<chunks, emitted, fwd, dataOpen, errChan, delivered, ctxDone, receiving,
                   closed, lateSend, mem, hdrs, pipe, mgr>>

\* A deferred close that never runs.
deferredCloseNever(n) == n

\* defer close(dataChan), defer close(errChan) (lines 299-300): the channel
\* is closed once more when the goroutine returns.
deferredClose(n) == n + 1

\* for chunk := range chunks (lines 301-321): one turn up to the send on
\* dataChan, or the return with its deferred closes (lines 299-300).
FwdRange ==
    /\ fwd = "range"
    /\ ~(chunks = <<>> /\ chunksOpen)
    /\ IF chunks = <<>>
       THEN /\ fwd' = "done"
            /\ errChan' = [errChan EXCEPT !.open = FALSE]
            /\ dataOpen' = FALSE
            /\ closed' = [data |-> deferredClose(closed.data),
                          err |-> deferredClose(closed.err)]
            /\ UNCHANGED <<chunks, lateSend, mem, hdrs, pipe>>
       ELSE /\ chunks' = Tail(chunks)
            /\ IF ~Head(chunks).Err.nil
               THEN LET em == errorMessage(hdrs, Head(chunks).Err) IN
                    /\ hdrs' = em.hdrs
                    /\ IF Len(errChan.buf) < chanCap("err")
                       THEN /\ lateSend' = (lateSend \/ ~errChan.open)
                            /\ errChan' = [buf |-> Append(errChan.buf, em.msg), open |-> FALSE]
                            /\ dataOpen' = FALSE
                            /\ closed' = [data |-> deferredClose(closed.data),
                                          err |-> deferredClose(closed.err)]
                            /\ fwd' = "done"
                       ELSE /\ fwd' = "errsend"
                            /\ UNCHANGED <<lateSend, errChan, dataOpen, closed>>
                    /\ UNCHANGED <<mem, pipe>>
               ELSE IF hasPayload(mem, Head(chunks))
               THEN LET cl == cloneBytes(mem, Head(chunks).Payload) IN
                    /\ mem' = cl.mem
                    /\ pipe' = [pipe EXCEPT !.resp = Head(chunks).Payload,
                                            !.got = mem[Head(chunks).Payload],
                                            !.out = cl.ptr,
                                            !.touched = @ \ {"resp", "out"}]
                    /\ fwd' = "send"
                    /\ UNCHANGED <<errChan, dataOpen, closed, lateSend, hdrs>>
               ELSE UNCHANGED <<fwd, errChan, dataOpen, closed, lateSend, mem, hdrs, pipe>>
    /\ UNCHANGED <<chunksOpen, emitted, delivered, ctxDone, receiving, mgr>>

\* dataChan <- cloneBytes(chunk.Payload) (line 319): dataChan has no buffer,
\* the send completes when the caller receives.
FwdSend ==
    /\ fwd = "send"
    /\ receiving
    /\ delivered' = delivered + 1
    /\ lateSend' = (lateSend \/ ~dataOpen)
    /\ fwd' = "range"
    /\ pipe' = [pipe EXCEPT !.recv = Append(@, mem[pipe.out])]
    /\ UNCHANGED <<chunks, chunksOpen, emitted, dataOpen, errChan, ctxDone, receiving,
                   closed, mem, hdrs, mgr>>

\* The caller cancels ctx, and goes on receiving from dataChan or stops.
Cancel ==
    /\ fwd # "none"
    /\ ~ctxDone
    /\ ctxDone' = TRUE
    /\ receiving' \in BOOLEAN
    /\ UNCHANGED <<chunks, chunksOpen, emitted, fwd, dataOpen, errChan, delivered,
                   closed, lateSend, mem, hdrs, pipe, mgr>>

(***************************************************************************)
(* Initial states                                                          *)
(***************************************************************************)

A  == Auth(IdA, FALSE)
B  == Auth(IdB, FALSE)
C  == Auth(IdC, FALSE)
Ad == Auth(IdA, TRUE)
Bd == Auth(IdB, TRUE)

NoCall == Ret("", <<>>, <<>>, <<>>, Nil, "", 0)

\* NewSmartStickySelector / NewSmartStickySelectorWithIndex: empty cursors
\* and an empty index of one of the given kinds.
InitSelector(kinds) ==
    /\ idxKind \in kinds
    /\ offsets = EmptyMap
    /\ byKey = EmptyMap
    /\ ops = 0
    /\ rdb = EmptyMap
    /\ now = 0
    /\ ret = NoCall

InitHist ==
    /\ stuck = {}
    /\ fixedAuths = <<>>
    /\ picks = EmptyMap
    /\ votes = EmptyMap
    /\ recorded = {}

\* "{}", the body of the model's calls
RawBody ==
    <<123, 125>>

\* The heaps before a call: the caller's body and an empty slice, and the
\* header map of the upstream errors that have one.
InitMem == <<RawBody, <<>>>>
InitHdrs == <<HdrRetry>>

\* No Auth value on the heap.
NoObjs == [auths |-> <<>>, metas |-> <<>>, list |-> <<>>, held |-> 0]

\* No call of the pipeline yet.
IdlePipe ==
    [entry |-> "none", stage |-> "idle", raw |-> 0, sent |-> <<>>, payload |-> 0,
     original |-> 0, resp |-> 0, got |-> <<>>, out |-> 0, errMsg |-> NoMessage,
     mgrCalls |-> 0, touched |-> {}, up |-> <<>>, recv |-> <<>>]

\* The manager at rest.
IdleMgr ==
    [state |-> "idle", providers |-> <<>>, req |-> "", chosen |-> Nil,
     quarantined |-> {}, tried |-> <<>>, result |-> [err |-> NoError, Payload |-> 0]]

NoPipeline ==
    /\ mem = InitMem
    /\ hdrs = InitHdrs
    /\ pipe = IdlePipe
    /\ mgr = IdleMgr
    /\ down = {}
    /\ objs = NoObjs

\* ExecuteStreamWithAuthManager has returned its channels for a call with a
\* nil body: nothing was cloned, and the manager has answered.
StreamPipeline ==
    /\ mem = InitMem
    /\ hdrs = InitHdrs
    /\ pipe = [IdlePipe EXCEPT !.entry = "stream", !.stage = "returned", !.mgrCalls = 1]
    /\ mgr = [IdleMgr EXCEPT !.state = "done", !.providers = <<StrCodex>>]
    /\ down = {}
    /\ objs = NoObjs

\* No streaming call.
NoStream ==
    /\ chunks = <<>>
    /\ chunksOpen = FALSE
    /\ emitted = 0
    /\ fwd = "none"
    /\ dataOpen = FALSE
    /\ errChan = [buf |-> <<>>, open |-> FALSE]
    /\ delivered = 0
    /\ ctxDone = FALSE
    /\ receiving = FALSE
    /\ closed = [data |-> 0, err |-> 0]
    /\ lateSend = FALSE

\* ExecuteStreamWithAuthManager has returned dataChan and errChan
\* (lines 296-323): the goroutine is at its range loop.
StreamStarted ==
    /\ chunks = <<>>
    /\ chunksOpen = TRUE
    /\ emitted = 0
    /\ fwd = "range"
    /\ dataOpen = TRUE
    /\ errChan = [buf |-> <<>>, open |-> TRUE]
    /\ delivered = 0
    /\ ctxDone = FALSE
    /\ receiving = TRUE
    /\ closed = [data |-> 0, err |-> 0]
    /\ lateSend = FALSE

\* The scope Pick computes for codex and the model of the requests.
CodexScope == scopeOf(StrCodex, StrModel)

\* The binding's AuthID of a hash in a scope, "" when there is none.
owner(scope, h) ==
    IF idxKind = "memory"
    THEN IF scope \in DOMAIN byKey /\ h \in DOMAIN byKey[scope]
         THEN byKey[scope][h].AuthID ELSE <<>>
    ELSE redisGet(rdb, key(scope, h)).AuthID

\* The IDs of the entries of auths that pass Pick's filter.
enabledIDs(auths) ==
    {auths[i].ID : i \in {j \in 1..Len(auths) : ~auths[j].nil /\ ~auths[j].Disabled}}

(***************************************************************************)
(* Spec: the selector, Pick and InvalidateAuth called in any order with    *)
(* any of the providers, requests and candidate lists below.               *)
(***************************************************************************)

Providers == {StrCodexPadded, StrGemini}
Requests == {"turn1", "turn2", "empty", "invalid", "short"}
AuthLists == {<<A, B>>, <<Ad, B>>, <<Nil, Ad>>}

Init == InitSelector({"memory", "redis"}) /\ InitHist /\ NoStream /\ NoPipeline

DoPick ==
    \E provider \in Providers, req \in Requests, auths \in AuthLists :
        /\ Pick(provider, StrModel, req, auths)
        /\ UNCHANGED <<histVars, streamVars, callVars>>

DoInvalidate ==
    \E id \in {IdA, IdB} :
        /\ InvalidateAuth(CodexScope, id)
        /\ UNCHANGED <<histVars, streamVars, callVars>>

Next == DoPick \/ DoInvalidate

Spec == Init /\ [][Next]_vars

\* C1: a successful Pick returns an auth that is not Disabled and whose ID
\* is the ID of a non-nil, non-Disabled entry of the auths it was called
\* with, whatever the index holds.
PickFilterSafety ==
    (ret.op = "Pick" /\ ret.path # "auth_not_found") =>
        /\ ~ret.auth.nil
        /\ ~ret.auth.Disabled
        /\ ret.auth.ID \in enabledIDs(ret.cands)

\* A Pick with A disabled returned B although a hash of the request is
\* still bound to A.
PickSkipsDisabledOwner ==
    /\ ret.op = "Pick"
    /\ ret.cands = <<Ad, B>>
    /\ ret.auth = B
    /\ \E i \in 1..Len(ret.hashes) : owner(ret.scope, ret.hashes[i]) = IdA

\* The requests without a usable message.
ZeroHashRequests == {"empty", "invalid", "short"}

\* C8: for codex and a request whose extraction yields no hash, Pick takes
\* the round-robin branch: it returns the candidate at the scope's cursor,
\* moves the cursor one further (modulo the number of candidates) and leaves
\* the message index as it was.
CodexNoHashRoundRobin ==
    [][\A req \in ZeroHashRequests, auths \in AuthLists :
            (/\ ret'.op = "Pick" /\ ret'.cands = auths /\ ret'.path # "auth_not_found"
             /\ Pick(StrCodexPadded, StrModel, req, auths)) =>
                LET filtered == filterAuths(auths)
                    n        == Len(filtered)
                    cur      == offsetOf(CodexScope) % n
                IN  /\ BodyHashes[req] = <<>>
                    /\ ret'.path = "rr"
                    /\ ret'.auth = filtered[cur + 1]
                    /\ offsets'[CodexScope] = (cur + 1) % n
                    /\ byKey' = byKey
                    /\ rdb' = rdb
                    /\ ops' = ops]_vars

\* A codex Pick without hashes returned the second candidate from the
\* cursor while the index holds bindings.
CodexNoHashSecondPick ==
    /\ ret.op = "Pick"
    /\ ret.scope = CodexScope
    /\ ret.hashes = <<>>
    /\ ret.path = "rr"
    /\ ret.cands = <<A, B>>
    /\ ret.auth = B
    /\ offsets[CodexScope] = 0
    /\ (byKey # EmptyMap \/ rdb # EmptyMap)

(***************************************************************************)
(* SpecSticky: codex Picks of two conversations over the in-process index. *)
(* "turn2" is "turn1" plus an assistant reply and one new user turn;       *)
(* "other2" quotes the prompt of "turn1".  stuck remembers which auths a   *)
(* Pick of "turn1" returned.                                               *)
(***************************************************************************)

StickyRequests == {"turn1", "turn2", "other2"}
StickyLists == {<<A, B>>, <<Ad, B>>}

InitSticky == InitSelector({"memory"}) /\ InitHist /\ NoStream /\ NoPipeline

StickyPick ==
    \E req \in StickyRequests, auths \in StickyLists :
        /\ Pick(StrCodex, StrModel, req, auths)
        /\ stuck' = IF req = "turn1" THEN stuck \cup {ret'.auth.ID} ELSE stuck
        /\ UNCHANGED <<fixedAuths, picks, votes, recorded, streamVars, callVars>>

StickyInvalidate ==
    \E id \in {IdA, IdB} :
        /\ InvalidateAuth(CodexScope, id)
        /\ stuck' = stuck \ {id}
        /\ UNCHANGED <<fixedAuths, picks, votes, recorded, streamVars, callVars>>

NextSticky == StickyPick \/ StickyInvalidate

SpecSticky == InitSticky /\ [][NextSticky]_vars

\* Every hash of hs is bound to id in the codex scope.
boundTo(hs, id) == \A i \in 1..Len(hs) : owner(CodexScope, hs[i]) = id

\* The hash the new user turn of "turn2" adds to those of "turn1".
NewTurnHash == BodyHashes["turn2"][Len(BodyHashes["turn2"])]

\* C2 as stated: once a Pick of H returned X, a later Pick of H plus one new
\* user turn returns X when X is an enabled candidate and no
\* InvalidateAuth for X happened in between.
StickyHit ==
    [][\A auths \in StickyLists, X \in {IdA, IdB} :
          (/\ X \in stuck
           /\ ret'.op = "Pick" /\ ret'.cands = auths
           /\ Pick(StrCodex, StrModel, "turn2", auths)
           /\ X \in enabledIDs(auths))
          => ret'.auth.ID = X]_vars

\* C2: once a Pick of H returned X, a later Pick of H plus one new user turn
\* returns X when X is an enabled candidate and, as that Pick starts, every
\* hash of H is still bound to X and the new turn's hash is not bound to
\* another auth.
StickyHitWhileBound ==
    [][\A auths \in StickyLists, X \in {IdA, IdB} :
          (/\ X \in stuck
           /\ ret'.op = "Pick" /\ ret'.cands = auths
           /\ Pick(StrCodex, StrModel, "turn2", auths)
           /\ X \in enabledIDs(auths)
           /\ boundTo(BodyHashes["turn1"], X)
           /\ owner(CodexScope, NewTurnHash) \in {<<>>, X})
          => (ret'.auth.ID = X /\ ret'.path = "sticky")]_vars

\* The second turn was served by the auth of the first turn after a Pick of
\* the other conversation.
StickySecondTurn ==
    /\ ret.op = "Pick"
    /\ ret.hashes = BodyHashes["turn2"]
    /\ ret.path = "sticky"
    /\ ret.auth.ID \in stuck
    /\ owner(CodexScope, BodyHashes["other2"][1]) # <<>>

\* C9 as stated: with candidates [A, B] and the hashes H of a request bound
\* to A, a Pick of that request with A disabled returns B, and
\* InvalidateAuth(scope, X) with H bound to X removes at least |H| bindings.
InvalidateOnDisable ==
    [][/\ \A req \in StickyRequests :
            (/\ ret'.op = "Pick" /\ ret'.cands = <<Ad, B>>
             /\ boundTo(BodyHashes[req], IdA)
             /\ Pick(StrCodex, StrModel, req, <<Ad, B>>))
            => ret'.auth = B
       /\ \A req \in StickyRequests, X \in {IdA, IdB} :
            (/\ ret'.op = "InvalidateAuth"
             /\ boundTo(BodyHashes[req], X)
             /\ InvalidateAuth(CodexScope, X))
            => ret'.removed >= Len(BodyHashes[req])]_vars

\* C9: the same, with the removal count promised only for a request of at
\* most indexScanGC hashes (one InvalidateAuth removes at most indexScanGC
\* bindings).
InvalidateOnDisableBounded ==
    [][/\ \A req \in StickyRequests :
            (/\ ret'.op = "Pick" /\ ret'.cands = <<Ad, B>>
             /\ boundTo(BodyHashes[req], IdA)
             /\ Pick(StrCodex, StrModel, req, <<Ad, B>>))
            => ret'.auth = B
       /\ \A req \in StickyRequests, X \in {IdA, IdB} :
            (/\ ret'.op = "InvalidateAuth"
             /\ boundTo(BodyHashes[req], X)
             /\ Len(BodyHashes[req]) <= indexScanGC
             /\ InvalidateAuth(CodexScope, X))
            => (/\ ret'.removed >= Len(BodyHashes[req])
                /\ ret'.removed <= indexScanGC)]_vars

\* InvalidateAuth for A removed bindings after a Pick with A disabled had
\* recorded the other candidate on A's hashes.
InvalidatedAfterDisable ==
    /\ ret.op = "InvalidateAuth"
    /\ ret.cands = <<A>>
    /\ ret.removed >= 1
    /\ \E h \in DOMAIN memTable(CodexScope) :
          /\ memTable(CodexScope)[h].AuthID = IdA
          /\ memTable(CodexScope)[h].Count = 0

(***************************************************************************)
(* SpecRR: Picks for providers other than codex, all with the same list of *)
(* candidates.  picks keeps what the Picks of each scope returned.         *)
(***************************************************************************)

\* At most MaxPicks Picks per scope.
MaxPicks == 6

RRProviders == {StrGemini, StrClaude}
RRLists == {<<A, B, C>>, <<A, B>>, <<B>>, <<A, Bd, C>>}

InitRR ==
    /\ InitSelector({"memory"})
    /\ stuck = {}
    /\ fixedAuths \in RRLists
    /\ picks = [p \in {scopeOf(q, StrModel) : q \in RRProviders} |-> <<>>]
    /\ votes = EmptyMap
    /\ recorded = {}
    /\ NoStream
    /\ NoPipeline

RRPick ==
    \E provider \in RRProviders, req \in {"turn1", "empty"} :
        LET scope == scopeOf(provider, StrModel) IN
        /\ Len(picks[scope]) < MaxPicks
        /\ Pick(provider, StrModel, req, fixedAuths)
        /\ picks' = [picks EXCEPT ![scope] = Append(@, ret'.auth.ID)]
        /\ UNCHANGED <<stuck, fixedAuths, votes, recorded, streamVars, callVars>>

NextRR == RRPick

SpecRR == InitRR /\ [][NextRR]_vars

\* C7: with a fixed list of candidates and a provider other than codex, the
\* k-th Pick of a scope (k = 0, 1, ...) returns candidates[k mod n], any n
\* consecutive Picks of a scope return each candidate once, and this holds
\* per scope whatever the Picks of the other scope.
RoundRobinFair ==
    LET cands == filterAuths(fixedAuths)
        n     == Len(cands)
    IN  \A scope \in DOMAIN picks :
            /\ \A k \in 0..(Len(picks[scope]) - 1) :
                  picks[scope][k + 1] = cands[(k % n) + 1].ID
            /\ \A j \in 1..(Len(picks[scope]) - n + 1) :
                  {picks[scope][i] : i \in j..(j + n - 1)} = {cands[i].ID : i \in 1..n}

\* Six Picks of one scope over [A, B, C] while the other scope is part-way.
RoundRobinTwice ==
    /\ fixedAuths = <<A, B, C>>
    /\ picks[scopeOf(StrGemini, StrModel)] = <<IdA, IdB, IdC, IdA, IdB, IdC>>
    /\ Len(picks[scopeOf(StrClaude, StrModel)]) = 2

(***************************************************************************)
(* The index called directly: Record, SuggestAuth and InvalidateAuth with  *)
(* the scopes Pick computes and hashes 1, 2, ...                           *)
(***************************************************************************)

HashOf(i) == <<i, 0, 0, 0>>
Prefix(n) == [i \in 1..n |-> HashOf(i)]

ScopeA == scopeOf(StrCodex, StrModel)
ScopeB == scopeOf(StrCodex, StrModelB)

(***************************************************************************)
(* SpecVote: Record calls of A and B on the same hashes, from an empty     *)
(* index of either kind.  votes keeps the order of the calls per hash.     *)
(***************************************************************************)

\* At most MaxVotes Record calls per hash.
MaxVotes == 4

VoteLists == {<<HashOf(1)>>, <<HashOf(1), HashOf(2)>>}

InitVote ==
    /\ InitSelector({"memory", "redis"})
    /\ stuck = {}
    /\ fixedAuths = <<>>
    /\ picks = EmptyMap
    /\ votes = [h \in {HashOf(1), HashOf(2)} |-> <<>>]
    /\ recorded = {}
    /\ NoStream
    /\ NoPipeline

VoteRecord ==
    \E hs \in VoteLists, id \in {IdA, IdB} :
        /\ \A i \in 1..Len(hs) : Len(votes[hs[i]]) < MaxVotes
        /\ Record(ScopeA, hs, id)
        /\ votes' = [h \in DOMAIN votes |->
                        IF \E i \in 1..Len(hs) : hs[i] = h
                        THEN Append(votes[h], id) ELSE votes[h]]
        /\ UNCHANGED <<stuck, fixedAuths, picks, recorded, streamVars, callVars>>

NextVote == VoteRecord

SpecVote == InitVote /\ [][NextVote]_vars

\* How many of the calls in v were for id.
votesFor(v, id) == Cardinality({i \in 1..Len(v) : v[i] = id})

\* C3 as stated: after k Record calls with authA and one with authB on a
\* hash, in any order, the binding's AuthID is authA if and only if k >= 2.
MajorityVote ==
    \A h \in DOMAIN votes : \A a \in {IdA, IdB}, b \in {IdA, IdB} :
        (a # b /\ votesFor(votes[h], b) = 1) =>
            (owner(ScopeA, h) = a <=> votesFor(votes[h], a) >= 2)

\* C3: after k Record calls with authA and one with authB on a hash, in any
\* order, the binding's AuthID is authA when k >= 2; when k = 1 it is the
\* auth of the first call in the in-process index and the auth of the last
\* call in the Redis index; when k = 0 it is authB.
VoteOutcome ==
    \A h \in DOMAIN votes : \A a \in {IdA, IdB}, b \in {IdA, IdB} :
        (a # b /\ votesFor(votes[h], b) = 1) =>
            LET k == votesFor(votes[h], a) IN
            /\ k >= 2 => owner(ScopeA, h) = a
            /\ k = 1 => owner(ScopeA, h) =
                           (IF idxKind = "memory" THEN votes[h][1] ELSE votes[h][2])
            /\ k = 0 => owner(ScopeA, h) = b

\* B recorded first, then A twice: the binding is A's.
VoteOutvoted ==
    /\ votes[HashOf(1)] = <<IdB, IdA, IdA>>
    /\ owner(ScopeA, HashOf(1)) = IdA

(***************************************************************************)
(* SpecCover: SuggestAuth for the first n hashes after Record calls for    *)
(* the first few, with either kind of index.                               *)
(***************************************************************************)

\* SuggestAuth is called with up to NumHashes hashes.
NumHashes == 9

\* Record is called with up to MaxRecordLen hashes.
MaxRecordLen == 3

InitCover == InitSelector({"memory", "redis"}) /\ InitHist /\ NoStream /\ NoPipeline

CoverRecord ==
    \E m \in 1..MaxRecordLen, id \in {IdA, IdB} :
        /\ id = IdB => m = 1
        /\ Record(ScopeA, Prefix(m), id)
        /\ UNCHANGED <<histVars, streamVars, callVars>>

CoverSuggest ==
    \E n \in 0..NumHashes :
        /\ SuggestAuth(ScopeA, Prefix(n), <<A, B>>)
        /\ UNCHANGED <<histVars, streamVars, callVars>>

NextCover == CoverRecord \/ CoverSuggest

SpecCover == InitCover /\ [][NextCover]_vars

\* t(n): n/3 rounded down for n >= 9, 2 for 4..8, 1 for 2..3, 0 below.
coverThreshold(n) ==
    IF n >= 9 THEN n \div 3 ELSE IF n >= 4 THEN 2 ELSE IF n >= 2 THEN 1 ELSE 0

\* The largest number of the hashes bound to one authID in the scope.
bestCover(scope, hashes) ==
    LET score(id) == Cardinality({i \in 1..Len(hashes) : owner(scope, hashes[i]) = id})
    IN  IF score(IdA) >= score(IdB) THEN score(IdA) ELSE score(IdB)

\* C4: SuggestAuth with n hashes returns nil whenever the largest number of
\* them bound to one authID is below t(n), and both kinds of index compute
\* that same t(n).
CoverageThreshold ==
    /\ \A n \in 0..(3 * NumHashes) :
          memMinCover(n) = coverThreshold(n) /\ redisMinCover(n) = coverThreshold(n)
    /\ ret.op = "SuggestAuth" =>
          (bestCover(ret.scope, ret.hashes) < coverThreshold(Len(ret.hashes))
              => ret.auth.nil)

\* SuggestAuth with nine hashes returned nil with two of them bound to A and
\* one to B: one short of floor(9/3).
CoverageJustBelow ==
    /\ ret.op = "SuggestAuth"
    /\ Len(ret.hashes) = 9
    /\ owner(ScopeA, HashOf(1)) = IdB
    /\ bestCover(ret.scope, ret.hashes) = 2
    /\ ret.auth.nil

(***************************************************************************)
(* SpecScope: Record, InvalidateAuth and SuggestAuth on two scopes, with   *)
(* either kind of index.  recorded keeps what was ever recorded.           *)
(***************************************************************************)

Scopes == {ScopeA, ScopeB}
ScopeLists == {<<HashOf(1)>>, <<HashOf(1), HashOf(2)>>}

InitScope == InitSelector({"memory", "redis"}) /\ InitHist /\ NoStream /\ NoPipeline

ScopeRecord ==
    \E scope \in Scopes, hs \in ScopeLists, id \in {IdA, IdB} :
        /\ id = IdB => scope = ScopeB
        /\ Record(scope, hs, id)
        /\ recorded' = recorded \cup {<<scope, hs[i], id>> : i \in 1..Len(hs)}
        /\ UNCHANGED <<stuck, fixedAuths, picks, votes, streamVars, callVars>>

ScopeInvalidate ==
    \E scope \in Scopes, id \in {IdA, IdB} :
        /\ InvalidateAuth(scope, id)
        /\ UNCHANGED <<histVars, streamVars, callVars>>

ScopeSuggest ==
    \E scope \in Scopes, hs \in ScopeLists :
        /\ SuggestAuth(scope, hs, <<A, B>>)
        /\ UNCHANGED <<histVars, streamVars, callVars>>

NextScope == ScopeRecord \/ ScopeInvalidate \/ ScopeSuggest

SpecScope == InitScope /\ [][NextScope]_vars

\* C5: an auth returned by SuggestAuth(scope, hashes, candidates) was
\* recorded under that very scope on at least t(n) of the hashes, and on at
\* least one; what was recorded under another scope counts for nothing.
ScopeIsolation ==
    (ret.op = "SuggestAuth" /\ ~ret.auth.nil) =>
        LET own == {i \in 1..Len(ret.hashes) :
                       <<ret.scope, ret.hashes[i], ret.auth.ID>> \in recorded}
        IN  /\ Cardinality(own) >= 1
            /\ Cardinality(own) >= coverThreshold(Len(ret.hashes))

\* SuggestAuth returned nil in scope A for hashes that are all bound to A in
\* scope B and were never recorded under scope A.
ScopeMiss ==
    /\ ret.op = "SuggestAuth"
    /\ ret.scope = ScopeA
    /\ ret.auth.nil
    /\ ret.hashes = <<HashOf(1), HashOf(2)>>
    /\ \A i \in 1..Len(ret.hashes) :
          /\ owner(ScopeB, ret.hashes[i]) = IdA
          /\ \A id \in {IdA, IdB} : <<ScopeA, ret.hashes[i], id>> \notin recorded

(***************************************************************************)
(* SpecGC: Record calls of one hash each on the in-process index while     *)
(* time passes.                                                            *)
(***************************************************************************)

\* Record is called with the hashes 1..MaxGCHashes.
MaxGCHashes == 4

InitGC == InitSelector({"memory"}) /\ InitHist /\ NoStream /\ NoPipeline

GCRecord ==
    \E i \in 1..MaxGCHashes :
        /\ Record(ScopeA, <<HashOf(i)>>, IdA)
        /\ UNCHANGED <<histVars, streamVars, callVars>>

GCTick == Tick /\ UNCHANGED <<histVars, streamVars, callVars>>

NextGC == GCRecord \/ GCTick

SpecGC == InitGC /\ [][NextGC]_vars

\* C6: a scope's table never holds more than indexMaxPerScope bindings plus
\* the hashes of one Record call, and after a Record call it holds at most
\* indexMaxPerScope.
GCBound ==
    \A scope \in DOMAIN byKey :
        /\ Cardinality(DOMAIN byKey[scope]) <= indexMaxPerScope + 1
        /\ (ret.op = "Record" /\ ret.scope = scope)
              => Cardinality(DOMAIN byKey[scope]) <= indexMaxPerScope

(***************************************************************************)
(* SpecStream: one streaming call from the moment the goroutine starts.    *)
(* The goroutine and the manager keep taking their steps.                  *)
(***************************************************************************)

InitStream == InitSelector({"memory"}) /\ InitHist /\ StreamStarted /\ StreamPipeline

NextStream ==
    \/ \E c \in ChunkKinds :
          UpstreamSend(c) /\ UNCHANGED <<coreVars, ret, histVars, down, objs>>
    \/ UpstreamClose /\ UNCHANGED <<coreVars, ret, histVars, down, objs>>
    \/ FwdRange /\ UNCHANGED <<coreVars, ret, histVars, down, objs>>
    \/ FwdSend /\ UNCHANGED <<coreVars, ret, histVars, down, objs>>
    \/ Cancel /\ UNCHANGED <<coreVars, ret, histVars, down, objs>>

SpecStream ==
    /\ InitStream
    /\ [][NextStream]_vars
    /\ WF_vars(UpstreamClose /\ UNCHANGED <<coreVars, ret, histVars, down, objs>>)
    /\ WF_vars(FwdRange /\ UNCHANGED <<coreVars, ret, histVars, down, objs>>)
    /\ WF_vars(FwdSend /\ UNCHANGED <<coreVars, ret, histVars, down, objs>>)

\* C10: once the caller has cancelled, the goroutine returns and dataChan
\* and errChan are closed.
StreamCleanup ==
    ctxDone ~> (fwd = "done" /\ ~dataOpen /\ ~errChan.open)

\* C11: the forwarding goroutine never closes dataChan or errChan twice and
\* never sends on a closed channel, and once it has returned, after the
\* chunk channel was closed or after the first error chunk, each of the two
\* channels has been closed exactly once.
ChannelsClosedOnce ==
    /\ closed.data <= 1
    /\ closed.err <= 1
    /\ ~lateSend
    /\ dataOpen <=> closed.data = 0
    /\ errChan.open <=> closed.err = 0
    /\ fwd = "done" => (closed.data = 1 /\ closed.err = 1)

\* The goroutine has returned on an error chunk after a payload was
\* delivered.
ClosedAfterErrorChunk ==
    /\ fwd = "done"
    /\ delivered > 0
    /\ Len(errChan.buf) = 1
(***************************************************************************)
(* SpecPipe: one call of an entry point of the pipeline, with any model    *)
(* name and body below and any answer of the manager; those who hold the   *)
(* bytes and the header map write to them.                                 *)
(***************************************************************************)

ModelNames == {StrModel, StrAuto, StrNope, StrCompatModel, StrOtherModel}

\* The model names no provider serves.
UnknownModels == {StrNope, StrOtherModel}

\* The bodies: nil, "{}" and an empty slice.
Bodies == {0, 1, 2}

\* The errors of the manager: without a status (a network error), with
\* 429 and Retry-After, with 429 and a nil header map, with 503 and the
\* header map, with 404, and with the statuses 0, -1, 42 and 700.
UpstreamErrors ==
    {Err(FALSE, 0, FALSE, 0), Err(TRUE, 429, TRUE, 1), Err(TRUE, 429, TRUE, 0),
     Err(TRUE, 503, TRUE, 1), Err(TRUE, 404, FALSE, 0), Err(TRUE, 0, FALSE, 0),
     Err(TRUE, 0 - 1, FALSE, 0), Err(TRUE, 42, FALSE, 0), Err(TRUE, 700, FALSE, 0)}

\* "ok"
RespBytes ==
    <<111, 107>>

\* The manager answers the call with an error, with the chunk channel, or
\* with a response it has allocated.
ManagerAnswer(e) ==
    /\ mgr.state = "called"
    /\ IF e.nil /\ pipe.entry # "stream"
       THEN /\ mem' = Append(mem, RespBytes)
            /\ mgr' = [mgr EXCEPT !.state = "done",
                                  !.result = [err |-> NoError, Payload |-> Len(mem) + 1]]
       ELSE /\ mgr' = [mgr EXCEPT !.state = "done",
                                  !.result = [err |-> e, Payload |-> 0]]
            /\ UNCHANGED mem
    /\ UNCHANGED <<hdrs, pipe, streamVars>>

InitPipe == InitSelector({"memory"}) /\ InitHist /\ NoStream /\ NoPipeline

NextPipe ==
    \/ \E entry \in Entries, modelName \in ModelNames, rawJSON \in Bodies :
          BeginCall(entry, modelName, rawJSON) /\ UNCHANGED <<coreVars, ret, histVars, down, objs>>
    \/ \E e \in UpstreamErrors \cup {NoError} :
          ManagerAnswer(e) /\ UNCHANGED <<coreVars, ret, histVars, down, objs>>
    \/ FinishCall /\ UNCHANGED <<coreVars, ret, histVars, down, objs>>
    \/ \E role \in Roles : Write(role) /\ UNCHANGED <<coreVars, ret, histVars, down, objs>>
    \/ HeaderWrite /\ UNCHANGED <<coreVars, ret, histVars, down, objs>>
    \/ \E c \in ChunkKinds :
          UpstreamSend(c) /\ UNCHANGED <<coreVars, ret, histVars, down, objs>>
    \/ UpstreamClose /\ UNCHANGED <<coreVars, ret, histVars, down, objs>>
    \/ FwdRange /\ UNCHANGED <<coreVars, ret, histVars, down, objs>>
    \/ FwdSend /\ UNCHANGED <<coreVars, ret, histVars, down, objs>>

SpecPipe == InitPipe /\ [][NextPipe]_vars

\* C12: the ErrorMessage of an error with status 429 and a header map with
\* Retry-After: 12, whether returned by a unary or a count call, sent at
\* the start of a stream or made of an error chunk, has StatusCode 429 and an
\* Addon that is another map than the error's, with Retry-After: 12 whatever
\* the error's owner does to its own map afterwards.
StatusPassthrough ==
    \A m \in errorRecords :
        (m.Error.hasStatus /\ m.Error.code = 429 /\ m.Error.hasHeaders /\ m.Error.hdr # 0)
           => /\ m.StatusCode = 429
              /\ m.Addon # 0
              /\ m.Addon # m.Error.hdr
              /\ hdrs[m.Addon][StrRetryAfter] = <<StrTwelve>>

\* The goroutine has made the ErrorMessage of a 429 error chunk, and the
\* owner of the error has changed its header map since.
PassthroughOfErrorChunk ==
    /\ fwd = "done"
    /\ \E m \in errorRecords : m.StatusCode = 429 /\ m.Addon # 0
    /\ hdrs[1] # HdrRetry

\* C13: the StatusCode of every ErrorMessage lies in 100..599, and is 500
\* when the error has no status or one outside that range.
StatusInRange ==
    \A m \in errorRecords :
        /\ m.StatusCode \in 100..599
        /\ (~m.Error.hasStatus \/ m.Error.code \notin 100..599)
              => m.StatusCode = StatusInternalServerError

\* What a role's slice holds.
content(role) == IF slice(role) = 0 THEN <<>> ELSE mem[slice(role)]

\* C14: once the manager is called, req.Payload and opts.OriginalRequest
\* hold the bytes rawJSON had at the call, in cells of their own, and so
\* does each of the three until its own holder writes to it; the bytes
\* handed to the caller, a unary response or a stream chunk, are a copy of
\* the manager's in a cell of its own, unchanged by a write to the
\* manager's.
CloneSafety ==
    pipe.mgrCalls > 0 =>
        /\ \A role \in {"raw", "payload", "original"} \ pipe.touched :
               content(role) = pipe.sent
        /\ pipe.payload # 0 => pipe.payload \notin {pipe.raw, pipe.original}
        /\ pipe.original # 0 => pipe.original # pipe.raw
        /\ pipe.sent # <<>> => (pipe.payload # 0 /\ pipe.original # 0)
        /\ \A role \in {"resp", "out"} \ pipe.touched : content(role) = pipe.got
        /\ pipe.out # 0 => pipe.out \notin {pipe.resp, pipe.raw, pipe.payload, pipe.original}
        /\ pipe.got # <<>> => pipe.out # 0

\* A unary call has returned a response; since then the caller has written
\* to rawJSON, the executor to req.Payload and the manager to its response.
WritesAfterUnaryCall ==
    /\ pipe.entry = "unary"
    /\ pipe.out # 0
    /\ {"raw", "payload", "resp"} \subseteq pipe.touched

\* C16: for a model name without a candidate provider each entry point
\* returns an ErrorMessage with status 400 and no header, the stream entry
\* on an error channel that holds just this message and is closed, with a
\* nil data channel; the manager is not called, then or later.
NoProviderIs400 ==
    [][/\ \A entry \in Entries, modelName \in UnknownModels, rawJSON \in Bodies :
             BeginCall(entry, modelName, rawJSON)
                => /\ pipe'.stage = "returned"
                   /\ pipe'.mgrCalls = 0
                   /\ mgr' = mgr
                   /\ mem' = mem
                   /\ \A m \in errorRecords' : m.StatusCode = StatusBadRequest /\ m.Addon = 0
                   /\ IF entry = "stream"
                      THEN /\ Len(errChan'.buf) = 1
                           /\ ~errChan'.open
                           /\ closed'.err = 1
                           /\ ~dataOpen' /\ fwd' = "none"
                      ELSE ~pipe'.errMsg.nil
       /\ (pipe.stage = "returned" /\ pipe.mgrCalls = 0)
             => (mgr' = mgr /\ pipe'.mgrCalls = 0 /\ errorRecords' = errorRecords)]_vars

\* A stream call for a model without a provider has returned.
NoProviderStream ==
    /\ pipe.entry = "stream"
    /\ pipe.stage = "returned"
    /\ pipe.mgrCalls = 0
    /\ Len(errChan.buf) = 1
(***************************************************************************)
(* SpecNorm: normalizeText and the hash of a text and of a variant of it   *)
(* that differs in letter case, in white space around it and in the white  *)
(* space between its words.                                                *)
(***************************************************************************)

\* The longest run of white space between the words of a variant, and
\* before and after it.
MaxRun == 2
MaxPad == 1

\* Space, tab, and the three-byte em space.
Blanks == {32, 9, 8195}

\* The texts, word by word: "Alpha beta Eclair Gamma delta 42" (with
\* E acute), and "Hi You", which has too few letters to be hashed.
WordsLong ==
    <<<<65, 108, 112, 104, 97>>, <<98, 101, 116, 97>>, <<201, 99, 108, 97, 105, 114>>, <<71, 97, 109, 109, 97>>, <<100, 101, 108, 116, 97>>, <<52, 50>>>>
WordsShort ==
    <<<<72, 105>>, <<89, 111, 117>>>>
Texts == {WordsLong, WordsShort}

\* The runs of white space of 0..n blanks.
RECURSIVE RunsUpTo(_)
RunsUpTo(n) ==
    IF n = 0 THEN {<<>>}
    ELSE LET shorter == RunsUpTo(n - 1) IN
         shorter \cup {Append(r, w) : r \in shorter, w \in Blanks}

\* The upper-case rune that unicode.ToLower maps to r, when there is one.
UpperRune(r) ==
    IF r \in 97..122 \/ (r \in 224..254 /\ r # 247) THEN r - 32 ELSE r

Casings == {"same", "upper", "lower", "swap"}
recase(casing, w) ==
    [i \in 1..Len(w) |->
        CASE casing = "same"  -> w[i]
          [] casing = "upper" -> UpperRune(w[i])
          [] casing = "lower" -> LowerRune(w[i])
          [] casing = "swap"  -> IF UpperRune(w[i]) # w[i] THEN UpperRune(w[i])
                                 ELSE LowerRune(w[i])]

\* The words joined by a run of white space.
RECURSIVE JoinWords(_, _)
JoinWords(words, run) ==
    IF Len(words) = 1 THEN words[1]
    ELSE words[1] \o run \o JoinWords(Tail(words), run)

\* The variant of a text: its words in another case, joined by another
\* run, with white space before and after.
variant(words, casing, lead, run, trail) ==
    lead \o JoinWords([i \in 1..Len(words) |-> recase(casing, words[i])], run) \o trail

\* What a call of normalizeText and of the hashing on a text and on its
\* variant leaves in ret.
Normalized(words, casing, lead, run, trail) ==
    LET a == JoinWords(words, <<32>>)
        b == variant(words, casing, lead, run, trail)
    IN  [op |-> "normalizeText", words |-> words, casing |-> casing, lead |-> lead,
         run |-> run, trail |-> trail, a |-> a, b |-> b,
         outA |-> normalizeText(a), outB |-> normalizeText(b),
         hashA |-> textHashes(a), hashB |-> textHashes(b)]

\* A text and a variant of it, not yet normalized.
Input(words, casing, lead, run, trail) ==
    [op |-> "input", words |-> words, casing |-> casing, lead |-> lead,
     run |-> run, trail |-> trail]

\* normalizeText and the hashing are called on the text and on its variant.
Normalize ==
    /\ ret.op = "input"
    /\ ret' = Normalized(ret.words, ret.casing, ret.lead, ret.run, ret.trail)
    /\ UNCHANGED coreVars

InitNorm ==
    /\ idxKind = "memory"
    /\ offsets = EmptyMap
    /\ byKey = EmptyMap
    /\ ops = 0
    /\ rdb = EmptyMap
    /\ now = 0
    /\ ret \in {Input(words, casing, lead, run, trail) :
                  words \in Texts, casing \in Casings, lead \in RunsUpTo(MaxPad),
                  run \in RunsUpTo(MaxRun) \ {<<>>}, trail \in RunsUpTo(MaxPad)}
    /\ InitHist /\ NoStream /\ NoPipeline

NextNorm == Normalize /\ UNCHANGED <<histVars, streamVars, callVars>>

SpecNorm == InitNorm /\ [][NextNorm]_vars

\* C15: a text and a variant of it that differs only in the case of its
\* letters, in the white space before and after it, and in the length and
\* kind of the white space between its words have the same normalizeText,
\* and so the same hash, or are both left without a hash.
HashStability ==
    ret.op = "normalizeText" =>
        /\ ret.outA = ret.outB
        /\ ret.hashA = ret.hashB
        /\ ret.hashA = <<>> <=> ret.outA = <<>>

\* A hashed text and its variant in upper case, after a tab, with a tab and
\* an em space between the words.
StableUnderAllThree ==
    /\ ret.op = "normalizeText"
    /\ ret.casing = "upper"
    /\ ret.lead = <<9>>
    /\ ret.run = <<9, 8195>>
    /\ ret.b # ret.a
    /\ ret.hashB # <<>>
(***************************************************************************)
(* SpecFault: the selector on the Redis index, with a transport that fails *)
(* any set of commands, changing from call to call.                        *)
(***************************************************************************)

\* The Redis commands of SuggestAuth and Record.
Commands == {"MGET", "GET", "SET"}

\* The transport starts or stops failing commands.
Fault(cmds) ==
    /\ cmds # down
    /\ down' = cmds
    /\ UNCHANGED <<coreVars, ret, histVars, streamVars, mem, hdrs, pipe, mgr, objs>>

FaultRequests == {"turn1", "short"}
FaultLists == {<<A, B>>, <<Nil, Ad, B>>}

InitFault == InitSelector({"redis"}) /\ InitHist /\ NoStream /\ NoPipeline

FaultPick ==
    \E provider \in Providers, req \in FaultRequests, auths \in FaultLists :
        /\ Pick(provider, StrModel, req, auths)
        /\ UNCHANGED <<histVars, streamVars, callVars>>

NextFault ==
    \/ FaultPick
    \/ \E cmds \in SUBSET Commands : Fault(cmds)

SpecFault == InitFault /\ [][NextFault]_vars

\* C17: on the Redis index, whatever commands the transport fails, a Pick
\* with at least one enabled candidate returns no error but one of the
\* enabled candidates: a random one of them when the request has hashes and
\* MGET fails, the round-robin one when the request has no hashes.
PickSurvivesFaults ==
    [][\A provider \in Providers, req \in FaultRequests, auths \in FaultLists :
          (/\ ret'.op = "Pick"
           /\ ret'.cands = auths
           /\ \E i \in 1..Len(auths) : ~auths[i].nil /\ ~auths[i].Disabled
           /\ Pick(provider, StrModel, req, auths))
             => /\ ret'.path # "auth_not_found"
                /\ ~ret'.auth.nil /\ ~ret'.auth.Disabled
                /\ \E i \in 1..Len(auths) : auths[i] = ret'.auth
                /\ (BodyHashes[req] # <<>> /\ EqualFold(TrimSpace(provider), StrCodex)
                       /\ "MGET" \in down)
                      => (ret'.path = "random" /\ ret'.hashes = BodyHashes[req])
                /\ (BodyHashes[req] = <<>> \/ ~EqualFold(TrimSpace(provider), StrCodex))
                      => (ret'.path = "rr"
                          /\ ret'.auth = filterAuths(auths)[(offsetOf(ret'.scope) % Len(filterAuths(auths))) + 1]
                          /\ rdb' = rdb)]_vars

\* With MGET failing, a Pick of a conversation bound to A has been answered
\* with B out of the enabled candidates A and B.
RandomWhileDown ==
    /\ ret.op = "Pick"
    /\ ret.path = "random"
    /\ "MGET" \in down
    /\ ret.cands = <<A, B>>
    /\ ret.auth = B
    /\ \E i \in 1..Len(ret.hashes) : redisGet(rdb, key(ret.scope, ret.hashes[i])).AuthID = IdA
(***************************************************************************)
(* SpecBoth: the in-process index and the Redis index side by side, given  *)
(* the same Record, SuggestAuth and InvalidateAuth calls.  The transport   *)
(* answers every command and no time passes.                               *)
(***************************************************************************)

BothLists == {<<HashOf(1)>>, <<HashOf(2)>>, <<HashOf(1), HashOf(2)>>}

InitBoth == InitSelector({"memory"}) /\ InitHist /\ NoStream /\ NoPipeline

\* Record on both indexes.
BothRecord ==
    \E hs \in BothLists, id \in {IdA, IdB} :
    \E o \in memRecord(ScopeA, hs, id) :
        LET db == redisRecord(ScopeA, hs, id) IN
        /\ CountsBounded(o.byKey, db)
        /\ byKey' = o.byKey
        /\ ops' = o.ops
        /\ rdb' = db
        /\ ret' = Ret("Record", ScopeA, <<Auth(id, FALSE)>>, hs, Nil, "", 0)
        /\ UNCHANGED <<idxKind, offsets, now, histVars, streamVars, callVars>>

\* InvalidateAuth on both indexes.
BothInvalidate ==
    \E id \in {IdA, IdB} :
    \E o \in memInvalidateAuth(ScopeA, id), r \in redisInvalidateAuth(ScopeA, id) :
        /\ byKey' = o.byKey
        /\ rdb' = r.rdb
        /\ ret' = Ret("InvalidateAuth", ScopeA, <<Auth(id, FALSE)>>, <<>>, Nil, "",
                      o.removed)
        /\ UNCHANGED <<idxKind, offsets, ops, now, histVars, streamVars, callVars>>

\* SuggestAuth on both indexes; ret keeps what the in-process index said.
BothSuggest ==
    \E hs \in BothLists :
    \E a \in memSuggestAuth(ScopeA, hs, <<A, B>>) :
        /\ ret' = Ret("SuggestAuth", ScopeA, <<A, B>>, hs, a, "", 0)
        /\ UNCHANGED <<coreVars, histVars, streamVars, callVars>>

NextBoth == BothRecord \/ BothInvalidate \/ BothSuggest

SpecBoth == InitBoth /\ [][NextBoth]_vars

\* The binding of a hash in the in-process index, the zero binding when
\* there is none.
memGet(scope, h) ==
    IF scope \in DOMAIN byKey /\ h \in DOMAIN byKey[scope]
    THEN byKey[scope][h] ELSE zeroBinding

\* C18: after every step the two indexes hold the same AuthID and Count for
\* every (scope, hash), and SuggestAuth gives the same result on both.
IndexesAgree ==
    /\ \A h \in {HashOf(1), HashOf(2)} :
          /\ memGet(ScopeA, h).AuthID = redisGet(rdb, key(ScopeA, h)).AuthID
          /\ memGet(ScopeA, h).Count = redisGet(rdb, key(ScopeA, h)).Count
    /\ \A hs \in BothLists :
          memSuggestAuth(ScopeA, hs, <<A, B>>) = redisSuggestAuth(ScopeA, hs, <<A, B>>)
(***************************************************************************)
(* SpecMgr: one call of the pipeline answered by the auth manager of the   *)
(* specification (4.5, 7): for its provider the manager leaves out the     *)
(* quarantined auths, asks the selector, and calls upstream with the auth  *)
(* it got; a retriable error quarantines the auth, invalidates its         *)
(* bindings and leads to another selection, any other error ends the call, *)
(* and so does the lack of a candidate, with the last error.               *)
(***************************************************************************)

\* The manager's auths of the provider.
AuthSet == <<A, B, Auth(IdC, TRUE)>>

\* The conversations of the call's body.
MgrRequests == {"turn2", "short"}

\* What upstream answers with: a network error, 429 and 503 with the header
\* map, 408, 425 and 404.
MgrErrors ==
    {Err(FALSE, 0, FALSE, 0), Err(TRUE, 429, TRUE, 1), Err(TRUE, 503, TRUE, 1),
     Err(TRUE, 408, FALSE, 0), Err(TRUE, 425, FALSE, 0), Err(TRUE, 404, FALSE, 0)}

\* Retriable: a network error, 408, 425, 429 and 5xx.
isRetriable(e) ==
    ~e.hasStatus \/ e.code \in {408, 425, 429} \/ e.code \in 500..599

\* AuthNotFound: no enabled credential, status 503.
ErrAuthNotFound == Err(TRUE, 503, FALSE, 0)

\* The auths the manager hands to the selector.
candidates == SelectSeq(AuthSet, LAMBDA a : a.ID \notin mgr.quarantined)

\* The manager selects an auth, or ends the call when there is none left.
MgrSelect(req) ==
    /\ mgr.state = "called"
    /\ mgr.chosen.nil
    /\ mgr.tried = <<>> \/ req = mgr.req
    /\ Pick(mgr.providers[1], StrModel, req, candidates)
    /\ mgr' = IF ret'.path = "auth_not_found"
              THEN [mgr EXCEPT !.state = "done",
                               !.result = [err |-> IF mgr.tried = <<>> THEN ErrAuthNotFound
                                                   ELSE mgr.tried[Len(mgr.tried)].err,
                                           Payload |-> 0]]
              ELSE [mgr EXCEPT !.req = req, !.chosen = ret'.auth]
    /\ UNCHANGED <<mem, hdrs, pipe, down, objs>>

\* The upstream call with the chosen auth succeeds or fails with e.
MgrAttempt(e) ==
    /\ mgr.state = "called"
    /\ ~mgr.chosen.nil
    /\ IF e.nil
       THEN /\ IF pipe.entry = "stream"
               THEN /\ mgr' = [mgr EXCEPT !.state = "done", !.chosen = Nil]
                    /\ UNCHANGED mem
               ELSE /\ mem' = Append(mem, RespBytes)
                    /\ mgr' = [mgr EXCEPT !.state = "done", !.chosen = Nil,
                                          !.result = [err |-> NoError, Payload |-> Len(mem) + 1]]
            /\ UNCHANGED <<coreVars, ret>>
       ELSE IF isRetriable(e)
       THEN /\ InvalidateAuth(scopeOf(mgr.providers[1], StrModel), mgr.chosen.ID)
            /\ mgr' = [mgr EXCEPT !.chosen = Nil,
                                  !.quarantined = @ \cup {mgr.chosen.ID},
                                  !.tried = Append(@, [auth |-> mgr.chosen.ID, err |-> e])]
            /\ UNCHANGED mem
       ELSE /\ mgr' = [mgr EXCEPT !.state = "done", !.chosen = Nil,
                                  !.tried = Append(@, [auth |-> mgr.chosen.ID, err |-> e]),
                                  !.result = [err |-> e, Payload |-> 0]]
            /\ UNCHANGED <<coreVars, ret, mem>>
    /\ UNCHANGED <<hdrs, pipe, down, objs>>

InitMgr == InitSelector({"memory", "redis"}) /\ InitHist /\ NoStream /\ NoPipeline

NextMgr ==
    \/ \E entry \in Entries :
          BeginCall(entry, StrModel, 1) /\ UNCHANGED <<coreVars, ret, histVars, down, objs>>
    \/ \E req \in MgrRequests : MgrSelect(req) /\ UNCHANGED <<histVars, streamVars>>
    \/ \E e \in MgrErrors \cup {NoError} :
          MgrAttempt(e) /\ UNCHANGED <<histVars, streamVars>>
    \/ FinishCall /\ UNCHANGED <<coreVars, ret, histVars, down, objs>>

SpecMgr == InitMgr /\ [][NextMgr]_vars

\* The last failed attempt.
lastTried(m) == m.tried[Len(m.tried)]

\* C19: when an upstream call fails with a network error, 408, 425, 429 or
\* 5xx, the manager quarantines the auth it had chosen and goes on to select
\* again; when it fails with another 4xx the call ends at once with that
\* error; and a selection never returns a quarantined auth, but returns a
\* candidate as long as an enabled one is not quarantined.
RetryPolicy ==
    [][/\ Len(mgr'.tried) > Len(mgr.tried)
            => LET t == lastTried(mgr') IN
               /\ t.auth = mgr.chosen.ID
               /\ IF ~t.err.hasStatus \/ t.err.code \in {408, 425, 429}
                                      \/ t.err.code \in 500..599
                  THEN /\ mgr'.quarantined = mgr.quarantined \cup {t.auth}
                       /\ mgr'.state = "called"
                       /\ mgr'.chosen.nil
                  ELSE /\ mgr'.state = "done"
                       /\ mgr'.result.err = t.err
                       /\ mgr'.quarantined = mgr.quarantined
       /\ (mgr.state = "called" /\ mgr.chosen.nil /\ mgr'.state = "called")
            => /\ ~mgr'.chosen.nil
               /\ mgr'.chosen.ID \notin mgr.quarantined
               /\ ~mgr'.chosen.Disabled
       /\ (mgr.state = "called" /\ mgr.chosen.nil /\ mgr'.state = "done")
            => \A i \in 1..Len(AuthSet) :
                  AuthSet[i].Disabled \/ AuthSet[i].ID \in mgr.quarantined]_vars

\* After A failed and was quarantined the manager has chosen B, although a
\* hash of the conversation is still bound to A.
RetriedOnNextCandidate ==
    /\ mgr.quarantined = {IdA}
    /\ mgr.chosen = B
    /\ \E i \in 1..Len(ret.hashes) : owner(ret.scope, ret.hashes[i]) = IdA

\* C20: when every enabled candidate has failed with a retriable error, the
\* manager returns the last of these errors as it is, and the ErrorMessage
\* of the pipeline has this error's status, 500 when it has none, and a
\* copy of its header map when it has one.
LastErrorReturned ==
    (/\ mgr.state = "done"
     /\ mgr.tried # <<>>
     /\ \A i \in 1..Len(mgr.tried) : isRetriable(mgr.tried[i].err)
     /\ \A i \in 1..Len(AuthSet) :
           AuthSet[i].Disabled \/ \E j \in 1..Len(mgr.tried) : mgr.tried[j].auth = AuthSet[i].ID)
       => LET e == lastTried(mgr).err IN
          /\ mgr.result.err = e
          /\ pipe.stage = "returned" =>
                /\ errorRecords # {}
                /\ \A m \in errorRecords :
                      /\ m.Error = e
                      /\ m.StatusCode = IF e.hasStatus THEN e.code ELSE StatusInternalServerError
                      /\ IF e.hasHeaders /\ e.hdr # 0
                         THEN /\ m.Addon \notin {0, e.hdr}
                              /\ hdrs[m.Addon] = hdrs[e.hdr]
                              /\ hdrs[e.hdr] = HdrRetry
                         ELSE m.Addon = 0

\* A failed with 408, B with 429 and Retry-After, and the call has returned.
ExhaustedWith429 ==
    /\ pipe.stage = "returned"
    /\ Len(mgr.tried) = 2
    /\ mgr.tried[1].err.code = 408
    /\ mgr.tried[2].err = Err(TRUE, 429, TRUE, 1)
    /\ \E m \in errorRecords : m.StatusCode = 429 /\ m.Addon # 0

(***************************************************************************)
(* SpecClone: Pick on a list of *Auth.  The Auth values and their Metadata *)
(* maps are cells of the heaps objs.auths and objs.metas (0 for nil): the  *)
(* manager's list holds pointers, Pick returns a pointer, and the caller   *)
(* writes through the pointer it was returned.                             *)
(***************************************************************************)

\* Pick returns at most MaxClones values.
MaxClones == 3

\* An Auth value on the heap: ID, Disabled and its Metadata map.
AuthObj(id, disabled, meta) == [ID |-> id, Disabled |-> disabled, Metadata |-> meta]

StrPlan == "plan"
StrFree == "free"
StrPro == "pro"

\* The manager's list: A and B, each with a Metadata map, and a nil entry.
InitObjs ==
    [auths |-> <<AuthObj(IdA, FALSE, 1), AuthObj(IdB, FALSE, 2)>>,
     metas |-> <<[k \in {StrPlan} |-> StrFree], [k \in {StrPlan} |-> StrFree]>>,
     list  |-> <<1, 0, 2>>,
     held  |-> 0]

\* Auth.Clone: a new Auth value with a new Metadata map of the same content.
Clone(o, p) ==
    LET m  == o.auths[p].Metadata
        ms == IF m = 0 THEN o.metas ELSE Append(o.metas, [k \in DOMAIN o.metas[m] |-> o.metas[m][k]])
        m2 == IF m = 0 THEN 0 ELSE Len(o.metas) + 1
    IN  [objs |-> [o EXCEPT !.metas = ms,
                            !.auths = Append(@, AuthObj(o.auths[p].ID, o.auths[p].Disabled, m2))],
         ptr  |-> Len(o.auths) + 1]

\* A return of the candidate itself.
pickReturnSame(o, p) == [objs |-> o, ptr |-> p]

\* return chosen.Clone(), nil (line 80) and return filtered[cur].Clone(), nil
\* (line 94)
pickReturn(o, p) == Clone(o, p)

\* What Pick reads of a *Auth, and the list as Pick reads it.
deref(o, p) == IF p = 0 THEN Nil ELSE Auth(o.auths[p].ID, o.auths[p].Disabled)
candidatesOf(o) == [i \in 1..Len(o.list) |-> deref(o, o.list[i])]

\* Pick on the manager's list; the caller holds what it returns.
ClonePick(provider, req) ==
    /\ Len(objs.auths) < Len(InitObjs.auths) + MaxClones
    /\ Pick(provider, StrModel, req, candidatesOf(objs))
    /\ IF ret'.auth.nil
       THEN objs' = [objs EXCEPT !.held = 0]
       ELSE LET p == CHOOSE q \in {objs.list[i] : i \in 1..Len(objs.list)} \ {0} :
                        deref(objs, q) = ret'.auth
                c == pickReturn(objs, p)
            IN  objs' = [c.objs EXCEPT !.held = c.ptr]
    /\ UNCHANGED <<histVars, streamVars, mem, hdrs, pipe, mgr, down>>

\* The caller changes the value it was returned: it sets Disabled, or edits
\* an entry of Metadata.
CallerWrites == {"Disabled", "Metadata"}
CallerWrite(w) ==
    /\ objs.held # 0
    /\ LET a == objs.auths[objs.held] IN
       IF w = "Disabled"
       THEN /\ ~a.Disabled
            /\ objs' = [objs EXCEPT !.auths[objs.held].Disabled = TRUE]
       ELSE /\ a.Metadata # 0
            /\ objs.metas[a.Metadata][StrPlan] = StrFree
            /\ objs' = [objs EXCEPT !.metas[a.Metadata][StrPlan] = StrPro]
    /\ UNCHANGED <<coreVars, ret, histVars, streamVars, mem, hdrs, pipe, mgr, down>>

CloneProviders == {StrCodex, StrGemini}
CloneRequests == {"turn1", "empty"}

InitClone ==
    /\ InitSelector({"memory", "redis"}) /\ InitHist /\ NoStream
    /\ mem = InitMem
    /\ hdrs = InitHdrs
    /\ pipe = IdlePipe
    /\ mgr = IdleMgr
    /\ down = {}
    /\ objs = InitObjs

NextClone ==
    \/ \E provider \in CloneProviders, req \in CloneRequests : ClonePick(provider, req)
    \/ \E w \in CallerWrites : CallerWrite(w)

SpecClone == InitClone /\ [][NextClone]_vars

\* The Auth values and Metadata maps the manager's list reaches.
listAuths(o) == {o.list[i] : i \in 1..Len(o.list)} \ {0}
listMetas(o) == {o.auths[p].Metadata : p \in listAuths(o)} \ {0}

\* C21: what Pick returns is a clone on the sticky, the random and the
\* round-robin path: it is no Auth of the candidate list and shares no
\* Metadata map with one, so whatever the caller writes to it, the Auth
\* values of the list stay as they were and every later Pick is given the
\* same candidates.
PickReturnsClone ==
    /\ objs.held # 0 =>
          /\ objs.held \notin listAuths(objs)
          /\ objs.auths[objs.held].Metadata \notin listMetas(objs)
    /\ \A p \in listAuths(InitObjs) : objs.auths[p] = InitObjs.auths[p]
    /\ \A m \in listMetas(InitObjs) : objs.metas[m] = InitObjs.metas[m]
    /\ objs.list = InitObjs.list
    /\ ret.op = "Pick" => ret.cands = candidatesOf(InitObjs)
    /\ (ret.op = "Pick" /\ ~ret.auth.nil) =>
          /\ objs.held # 0
          /\ ret.auth \in {deref(InitObjs, p) : p \in listAuths(InitObjs)}

\* The caller has disabled a value it was returned for A and edited its
\* Metadata, and a later Pick has returned A again on the sticky path.
StickyAfterCallerWrite ==
    /\ ret.path = "sticky"
    /\ ret.auth = A
    /\ \E p \in 1..Len(objs.auths) :
          /\ p # objs.held
          /\ objs.auths[p].ID = IdA
          /\ objs.auths[p].Disabled
          /\ objs.metas[objs.auths[p].Metadata][StrPlan] = StrPro

\* The binding of a hash in a scope, the zero binding when there is none.
bindingIn(kind, bk, db, scope, h) ==
    IF kind = "memory"
    THEN IF scope \in DOMAIN bk /\ h \in DOMAIN bk[scope]
         THEN bk[scope][h] ELSE zeroBinding
    ELSE redisGet(db, key(scope, h))
binding(scope, h) == bindingIn(idxKind, byKey, rdb, scope, h)

\* C22: a Record of authB on a hash bound to another authA lowers Count by
\* one; when this brings Count to zero the binding is authB's with Count 1
\* at the end of the call, and when Count stays above zero the binding is
\* still authA's.
ConflictStep ==
    [][\A h \in {HashOf(1), HashOf(2)} :
          LET b == binding(ScopeA, h) IN
          (/\ ret'.op = "Record"
           /\ \E i \in 1..Len(ret'.hashes) : ret'.hashes[i] = h
           /\ b.AuthID # <<>>
           /\ b.AuthID # ret'.cands[1].ID
           /\ b.Count >= 1)
          => IF b.Count - 1 = 0
             THEN binding(ScopeA, h)' = Binding(ret'.cands[1].ID, 1, now')
             ELSE /\ binding(ScopeA, h)'.AuthID = b.AuthID
                  /\ binding(ScopeA, h)'.Count = b.Count - 1]_vars

(***************************************************************************)
(* SpecAmbig: Picks for codex on the two turns of a conversation, with A   *)
(* enabled or disabled next to B and C, on either kind of index.           *)
(***************************************************************************)

AmbigRequests == {"turn1", "turn2"}
AmbigLists == {<<A, B, C>>, <<Ad, B, C>>}

InitAmbig == InitSelector({"memory", "redis"}) /\ InitHist /\ NoStream /\ NoPipeline

AmbigPick ==
    \E req \in AmbigRequests, auths \in AmbigLists :
        /\ Pick(StrCodex, StrModel, req, auths)
        /\ UNCHANGED <<histVars, streamVars, callVars>>

NextAmbig == AmbigPick

SpecAmbig == InitAmbig /\ [][NextAmbig]_vars

\* C23: for codex, when there are hashes and SuggestAuth can return nil,
\* each of the filtered candidates is among the choices of Pick, whatever
\* the bindings; when Pick takes the random path it returns a filtered
\* candidate, and when it returns every current hash is bound to the picked
\* auth as of now, unless the hash was bound to another auth before the
\* call, where Record only lowers the Count.
AmbiguousIsRandom ==
    /\ [](\A req \in AmbigRequests, auths \in AmbigLists :
            LET filtered == filterAuths(auths)
                hashes   == BodyHashes[req]
            IN  (Len(hashes) > 0 /\ Nil \in idxSuggestAuth(CodexScope, hashes, filtered))
                => \A i \in 1..Len(filtered) :
                      [chosen |-> filtered[i], path |-> "random"]
                          \in stickyChoices(CodexScope, hashes, filtered))
    /\ [][ret'.path = "random" =>
            LET filtered == filterAuths(ret'.cands) IN
            /\ Len(ret'.hashes) > 0
            /\ Nil \in idxSuggestAuth(ret'.scope, ret'.hashes, filtered)
            /\ \E i \in 1..Len(filtered) : ret'.auth = filtered[i]
            /\ \A j \in 1..Len(ret'.hashes) :
                  LET h == ret'.hashes[j]
                      b == bindingIn(idxKind, byKey', rdb', ret'.scope, h)
                  IN
                  \/ /\ b.AuthID = ret'.auth.ID
                     /\ b.LastSeen = now'
                     /\ b.Count >= 1
                  \/ binding(ret'.scope, h).AuthID \notin {<<>>, ret'.auth.ID}]_vars

\* With A disabled, Pick has drawn C for the second turn although B owns a
\* hash of it, and A another.
RandomNotSecondBest ==
    /\ ret.path = "random"
    /\ ret.cands = <<Ad, B, C>>
    /\ ret.auth = C
    /\ \E i, j \in 1..Len(ret.hashes) :
          /\ owner(ret.scope, ret.hashes[i]) = IdA
          /\ owner(ret.scope, ret.hashes[j]) = IdB

\* Where the first error chunk is among the chunks sent upstream, 0 when
\* there is none.
firstErr(up) ==
    LET at == {i \in 1..Len(up) : up[i].kind = "err"}
    IN  IF at = {} THEN 0 ELSE CHOOSE i \in at : \A j \in at : i <= j

\* The chunks sent upstream before the first error chunk.
beforeErr(up) == IF firstErr(up) = 0 THEN up ELSE SubSeq(up, 1, firstErr(up) - 1)

\* The payloads of chunks that are not empty, in order.
RECURSIVE payloadsOf(_)
payloadsOf(up) ==
    IF up = <<>> THEN <<>>
    ELSE IF Len(Head(up).bytes) > 0 THEN <<Head(up).bytes>> \o payloadsOf(Tail(up))
    ELSE payloadsOf(Tail(up))

\* The goroutine has taken the first error chunk from the chunk channel.
errTaken ==
    firstErr(pipe.up) # 0 /\ Len(pipe.up) - Len(chunks) >= firstErr(pipe.up)

\* C24: in a streaming call the goroutine is never blocked in its send on
\* errChan, errChan never holds more than one ErrorMessage, and once the
\* goroutine has taken the first error chunk it has returned, errChan holds
\* exactly one ErrorMessage, and the caller has received no more payloads
\* than were sent before that chunk; without an error chunk taken errChan is
\* empty.
ErrorEndsStream ==
    /\ fwd # "errsend"
    /\ Len(errChan.buf) <= 1
    /\ errTaken =>
          /\ fwd = "done"
          /\ Len(errChan.buf) = 1
          /\ Len(pipe.recv) <= Len(payloadsOf(beforeErr(pipe.up)))
          /\ \A i \in 1..Len(pipe.recv) :
                \E j \in 1..(firstErr(pipe.up) - 1) : pipe.up[j].bytes = pipe.recv[i]
    /\ ~errTaken => errChan.buf = <<>>

\* A payload, an error and another payload were sent; the caller has the
\* first payload and errChan the ErrorMessage.
PayloadAfterErrorDropped ==
    /\ Len(pipe.up) = 3
    /\ pipe.up[1].kind = "payload"
    /\ pipe.up[2].kind = "err"
    /\ pipe.up[3].kind = "payload"
    /\ fwd = "done"
    /\ pipe.recv = <<ChunkBytes(0)>>
    /\ Len(errChan.buf) = 1

\* s is the beginning of t.
IsPrefix(s, t) == Len(s) <= Len(t) /\ SubSeq(t, 1, Len(s)) = s

\* C25: what the caller has received from dataChan is at any time a
\* beginning of the non-empty payloads sent upstream before the first error
\* chunk, in upstream order, and it is all of them once the goroutine has
\* returned after the error chunk or after the chunk channel was closed.
OrderedDelivery ==
    LET expected == payloadsOf(beforeErr(pipe.up)) IN
    /\ IsPrefix(pipe.recv, expected)
    /\ Len(pipe.recv) = delivered
    /\ (fwd = "done" /\ (errTaken \/ (chunks = <<>> /\ ~chunksOpen)))
          => pipe.recv = expected

\* Three chunks, the second one empty: the caller has the first and the
\* third payload.
EmptyChunkSkipped ==
    /\ Len(pipe.up) = 3
    /\ pipe.up[2].kind = "empty"
    /\ fwd = "done"
    /\ pipe.recv = <<ChunkBytes(0), ChunkBytes(2)>>

(***************************************************************************)
(* SpecIdx: Record and SuggestAuth on one scope of an index of either kind *)
(* while time passes.                                                      *)
(***************************************************************************)

\* " "
IdBlank ==
    <<32>>

IdxHashes == {HashOf(1), HashOf(2)}
IdxLists == {<<HashOf(1)>>, <<HashOf(1), HashOf(2)>>}

InitIdx == InitSelector({"memory", "redis"}) /\ InitHist /\ NoStream /\ NoPipeline

IdxRecord ==
    \E hs \in IdxLists, id \in {IdA, IdB, IdBlank} :
        /\ id = IdBlank => hs = <<HashOf(1)>>
        /\ Record(ScopeA, hs, id)
        /\ UNCHANGED <<histVars, streamVars, callVars>>

IdxSuggest ==
    \E hs \in IdxLists :
        /\ SuggestAuth(ScopeA, hs, <<A, B>>)
        /\ UNCHANGED <<histVars, streamVars, callVars>>

IdxTick == Tick /\ UNCHANGED <<histVars, streamVars, callVars>>

NextIdx == IdxRecord \/ IdxSuggest \/ IdxTick

SpecIdx == InitIdx /\ [][NextIdx]_vars

\* The index holds a binding for the hash in the scope.
stored(scope, h) ==
    IF idxKind = "memory"
    THEN scope \in DOMAIN byKey /\ h \in DOMAIN byKey[scope]
    ELSE key(scope, h) \in DOMAIN rdb

\* Every stored binding has Count >= 0 and a non-empty AuthID.
BindingsWellFormed ==
    \A sc \in {ScopeA}, h \in IdxHashes :
        stored(sc, h) => binding(sc, h).Count >= 0 /\ binding(sc, h).AuthID # <<>>

\* A Record call that changes a binding sets its LastSeen to the time of the
\* call.
RecordStampsLastSeen ==
    \A sc \in {ScopeA}, h \in IdxHashes :
        (ret'.op = "Record" /\ stored(sc, h)' /\ binding(sc, h)' # binding(sc, h))
            => binding(sc, h)'.LastSeen = now'

\* LastSeen never moves backwards.
LastSeenMonotone ==
    \A sc \in {ScopeA}, h \in IdxHashes :
        (stored(sc, h) /\ stored(sc, h)')
            => binding(sc, h)'.LastSeen >= binding(sc, h).LastSeen

\* C26: in every reachable state of either index every stored binding has
\* Count >= 0 and a non-empty AuthID; every Record call that changes a
\* binding (increment, decrement or ownership flip) sets its LastSeen to the
\* time of the call; LastSeen never moves backwards.
BindingInvariants ==
    /\ []BindingsWellFormed
    /\ [][RecordStampsLastSeen]_vars
    /\ [][LastSeenMonotone]_vars

\* The hash has a binding to id in the scope that is not expired.
liveFor(scope, h, id) ==
    /\ stored(scope, h)
    /\ binding(scope, h).AuthID = id
    /\ now - binding(scope, h).LastSeen <= indexTTL

\* C27: a binding whose LastSeen is more than indexTTL before the current
\* time counts for nothing in SuggestAuth: an auth it returns has bindings
\* that are not expired on at least one of the hashes and on at least the
\* coverage threshold of them, whether or not a GC pass has run.
ExpiredIsMiss ==
    [][(ret' # ret /\ ret'.op = "SuggestAuth" /\ ~ret'.auth.nil) =>
          LET live == {i \in 1..Len(ret'.hashes) :
                          liveFor(ret'.scope, ret'.hashes[i], ret'.auth.ID)}
          IN  /\ Cardinality(live) >= 1
              /\ Cardinality(live) >= coverThreshold(Len(ret'.hashes))]_vars

(***************************************************************************)
(* SpecBest: SuggestAuth with candidate lists in which the owner of most   *)
(* hashes is enabled, disabled or missing, on an index of either kind.     *)
(***************************************************************************)

BestRecords == {<<HashOf(1), HashOf(2)>>, <<HashOf(2)>>, <<HashOf(3)>>}
BestCandidates == {<<A, B>>, <<Ad, B>>, <<B>>}

InitBest == InitSelector({"memory", "redis"}) /\ InitHist /\ NoStream /\ NoPipeline

BestRecord ==
    \E hs \in BestRecords, id \in {IdA, IdB} :
        /\ Record(ScopeA, hs, id)
        /\ UNCHANGED <<histVars, streamVars, callVars>>

BestSuggest ==
    \E n \in 1..3, auths \in BestCandidates :
        /\ SuggestAuth(ScopeA, Prefix(n), auths)
        /\ UNCHANGED <<histVars, streamVars, callVars>>

NextBest == BestRecord \/ BestSuggest

SpecBest == InitBest /\ [][NextBest]_vars

\* On how many of the hashes the binding is id's.
scoreOf(scope, hashes, id) ==
    Cardinality({i \in 1..Len(hashes) : owner(scope, hashes[i]) = id})

\* The highest score among A and B.
maxScore(scope, hashes) ==
    IF scoreOf(scope, hashes, IdA) >= scoreOf(scope, hashes, IdB)
    THEN scoreOf(scope, hashes, IdA) ELSE scoreOf(scope, hashes, IdB)

\* id is the ID of an enabled candidate.
enabledIn(auths, id) ==
    \E i \in 1..Len(auths) : ~auths[i].nil /\ ~auths[i].Disabled /\ auths[i].ID = id

\* C28: SuggestAuth returns nil or an enabled candidate whose authID has the
\* highest score; when no authID with the highest score is an enabled
\* candidate it returns nil, also when an authID with a lower score that
\* meets the coverage threshold is an enabled candidate.
BestOnly ==
    ret.op = "SuggestAuth" =>
        /\ ~ret.auth.nil =>
              /\ enabledIn(ret.cands, ret.auth.ID)
              /\ scoreOf(ret.scope, ret.hashes, ret.auth.ID) = maxScore(ret.scope, ret.hashes)
        /\ (\A id \in {IdA, IdB} :
               scoreOf(ret.scope, ret.hashes, id) = maxScore(ret.scope, ret.hashes)
                  => ~enabledIn(ret.cands, id))
              => ret.auth.nil

\* Of three hashes two are bound to the disabled A and one to the enabled
\* B, which meets the threshold of 1: SuggestAuth returned nil.
SecondBestIgnored ==
    /\ ret.op = "SuggestAuth"
    /\ ret.cands = <<Ad, B>>
    /\ ret.hashes = Prefix(3)
    /\ scoreOf(ret.scope, ret.hashes, IdA) = 2
    /\ scoreOf(ret.scope, ret.hashes, IdB) = 1
    /\ coverThreshold(3) <= 1
    /\ ret.auth.nil

(***************************************************************************)
(* SpecInv: Record, InvalidateAuth and SuggestAuth on an index of either   *)
(* kind while time passes; on Redis the transport fails commands, and a    *)
(* second scope has keys that match the SCAN pattern of the first.         *)
(***************************************************************************)

\* "gpt-5:x"
StrModelSub ==
    <<103, 112, 116, 45, 53, 58, 120>>

ScopeSub == scopeOf(StrCodex, StrModelSub)
InvScopes == {ScopeA, ScopeSub, <<>>}
InvIDs == {IdA, IdBlank}
InvLists == {<<HashOf(1)>>, <<HashOf(1), HashOf(2)>>}

\* What the transport fails: nothing, the MGET of InvalidateAuth, or its
\* DEL.
InvFaults == {{}, {"MGET"}, {"DEL"}}

InitInv == InitSelector({"memory", "redis"}) /\ InitHist /\ NoStream /\ NoPipeline

InvRecord ==
    \E scope \in {ScopeA, ScopeSub}, hs \in InvLists, id \in InvIDs :
        /\ scope = ScopeSub => (idxKind = "redis" /\ hs = <<HashOf(1)>> /\ id = IdA)
        /\ id # IdA => hs = <<HashOf(1)>>
        /\ Record(scope, hs, id)
        /\ UNCHANGED <<histVars, streamVars, callVars>>

InvInvalidate ==
    \E scope \in {ScopeA, <<>>}, id \in {IdA, IdBlank} :
        /\ InvalidateAuth(scope, id)
        /\ UNCHANGED <<histVars, streamVars, callVars>>

InvSuggest ==
    /\ SuggestAuth(ScopeA, <<HashOf(1), HashOf(2)>>, <<A, B>>)
    /\ UNCHANGED <<histVars, streamVars, callVars>>

InvTick == Tick /\ UNCHANGED <<histVars, streamVars, callVars>>

InvFault == idxKind = "redis" /\ \E cmds \in InvFaults : Fault(cmds)

NextInv == InvRecord \/ InvInvalidate \/ InvSuggest \/ InvTick \/ InvFault

SpecInv == InitInv /\ [][NextInv]_vars

\* The bindings of a scope (its hashes in the in-process index, its keys in
\* Redis), and those of them with AuthID x.
bindingsOf(scope) ==
    IF idxKind = "memory"
    THEN IF scope \in DOMAIN byKey THEN DOMAIN byKey[scope] ELSE {}
    ELSE {k \in DOMAIN rdb : k[1] = scope}
ownedBy(scope, x) ==
    IF idxKind = "memory"
    THEN {h \in bindingsOf(scope) : byKey[scope][h].AuthID = x}
    ELSE {k \in bindingsOf(scope) : rdb[k].val.AuthID = x}

\* The keys that match the SCAN pattern of InvalidateAuth(scope, _).
scanMatches(scope) ==
    {k \in DOMAIN rdb : GlobMatch(StrPrefix \o <<58>> \o scope \o <<58, 42>>, KeyString(k))}

\* The step is a call of InvalidateAuth.
InvalidateStep == ret'.op = "InvalidateAuth" /\ now' = now /\ down' = down

\* After InvalidateAuth(scope, X) on a scope of at most indexScanGC bindings
\* no binding of the scope has AuthID X.
ClearsSmallScope ==
    \A sc \in InvScopes, x \in InvIDs :
        (/\ InvalidateStep
         /\ ret'.scope = sc
         /\ ret'.cands[1].ID = x
         /\ Cardinality(bindingsOf(sc)) <= indexScanGC)
        => ownedBy(sc, x)' = {}

\* While no binding of the scope has AuthID X, SuggestAuth on the scope
\* returns nil or an auth other than X.
UnboundNotSuggested ==
    \A hs \in InvLists :
    \A a \in idxSuggestAuth(ScopeA, hs, <<A, B>>) : a.nil \/ ownedBy(ScopeA, a.ID) # {}

\* Only a Record of X on the scope gives X a binding there.
OnlyRecordBinds ==
    IF ret'.op = "Record"
    THEN \A sc \in InvScopes, x \in InvIDs :
            (ownedBy(sc, x) = {} /\ ownedBy(sc, x)' # {})
               => (ret'.scope = sc /\ ret'.cands[1].ID = x)
    ELSE \A sc \in InvScopes, x \in InvIDs :
            ownedBy(sc, x) = {} => ownedBy(sc, x)' = {}

\* C29 as stated: after InvalidateAuth(scope, X) returns on a scope that
\* holds at most indexScanGC bindings no binding of that scope has AuthID X,
\* and SuggestAuth on the scope returns nil or an auth other than X until a
\* Record binds a hash to X again.
InvalidateClears ==
    /\ [][ClearsSmallScope]_vars
    /\ []UnboundNotSuggested
    /\ [][OnlyRecordBinds]_vars

\* The same for a non-blank X, on the in-process index and, on the Redis
\* index, when the transport answers SCAN, MGET and DEL and at most
\* indexScanGC keys match the SCAN pattern.
ClearsWhenScanned ==
    \A sc \in InvScopes, x \in InvIDs :
        (/\ InvalidateStep
         /\ ret'.scope = sc
         /\ ret'.cands[1].ID = x
         /\ TrimSpace(x) # <<>>
         /\ Cardinality(bindingsOf(sc)) <= indexScanGC
         /\ idxKind = "redis" =>
               /\ down \cap {"SCAN", "MGET", "DEL"} = {}
               /\ Cardinality(scanMatches(sc)) <= indexScanGC)
        => ownedBy(sc, x)' = {}

\* C29: after InvalidateAuth(scope, X) returns for a non-blank X on a scope
\* that holds at most indexScanGC bindings, no binding of that scope has
\* AuthID X, on the in-process index always and on the Redis index when the
\* transport answers SCAN, MGET and DEL and at most indexScanGC keys match
\* the pattern prefix:scope:*; SuggestAuth on the scope then returns nil or
\* an auth other than X until a Record binds a hash to X again.
InvalidateClearsScanned ==
    /\ [][ClearsWhenScanned]_vars
    /\ []UnboundNotSuggested
    /\ [][OnlyRecordBinds]_vars

\* InvalidateAuth(scope, A) on the Redis index has removed the scope's one
\* binding, which was A's.
InvalidatedOnRedis ==
    /\ idxKind = "redis"
    /\ down = {}
    /\ ret.op = "InvalidateAuth"
    /\ ret.scope = ScopeA
    /\ ret.cands[1].ID = IdA
    /\ ret.removed = 1
    /\ bindingsOf(ScopeA) = {}

\* How many bindings the index holds.
countAll ==
    IF idxKind = "memory"
    THEN Cardinality(bindingsOf(ScopeA)) + Cardinality(bindingsOf(ScopeSub))
    ELSE Cardinality(DOMAIN rdb)

\* C30: the value InvalidateAuth returns is the number of bindings the call
\* deleted and is at most indexScanGC; with an empty scope or a blank authID
\* it deletes nothing and returns 0.
ResultExact ==
    [][InvalidateStep =>
          /\ ret'.removed = countAll - countAll'
          /\ ret'.removed <= indexScanGC
          /\ (ret'.scope = <<>> \/ TrimSpace(ret'.cands[1].ID) = <<>>)
                => (ret'.removed = 0 /\ byKey' = byKey /\ rdb' = rdb)]_vars

\* The bindings of a scope with what is stored for each.
scopeTable(scope) ==
    IF idxKind = "memory"
    THEN IF scope \in DOMAIN byKey THEN byKey[scope] ELSE EmptyMap
    ELSE [k \in bindingsOf(scope) |-> rdb[k]]

\* The stored msgBinding of an entry of scopeTable.
valueOf(e) == IF idxKind = "memory" THEN e ELSE e.val

\* An InvalidateAuth(scope, X) leaves the bindings of every other scope as
\* they are, and in its own scope those that are not expired and not X's.
InvalidateFrame ==
    \A sc \in {ScopeA, ScopeSub} :
        IF sc # ret'.scope
        THEN scopeTable(sc)' = scopeTable(sc)
        ELSE \A k \in DOMAIN scopeTable(sc) :
                (/\ now - valueOf(scopeTable(sc)[k]).LastSeen <= indexTTL
                 /\ TrimSpace(valueOf(scopeTable(sc)[k]).AuthID) # TrimSpace(ret'.cands[1].ID))
                => (k \in DOMAIN scopeTable(sc)' /\ scopeTable(sc)'[k] = scopeTable(sc)[k])

\* C31: InvalidateAuth(scopeA, X) leaves every binding stored under any
\* other scope unchanged, on both indexes, also when scopeA is the beginning
\* of the other scope's name; within scopeA it leaves every unexpired
\* binding of an auth other than X unchanged.
ScopeFrame ==
    [][InvalidateStep => InvalidateFrame]_vars

\* How many entries the first loop of the GC of Record can visit (lines
\* 265-273): 'for k, v := range table' ends with the table, or at the
\* indexScanGC-th deletion, wherever the map's order puts it.
memGCExamined(table, t) ==
    LET size    == Cardinality(DOMAIN table)
        expired == Cardinality({k \in DOMAIN table : t - table[k].LastSeen > indexTTL})
    IN  IF expired < indexScanGC THEN {size}
        ELSE indexScanGC..(size - (expired - indexScanGC))

\* The condition under which Record runs its GC (line 263).
memGCStarts(opsBefore, table) ==
    (opsBefore + 1) % indexGCEvery = 0 \/ Cardinality(DOMAIN table) > indexMaxPerScope

\* C32: a GC pass inside an in-process Record starts only when the Record
\* counter is a multiple of indexGCEvery or the scope's table is over
\* indexMaxPerScope, and a pass visits at most indexScanGC entries of the
\* table.
GCScanBounded ==
    [][(ret'.op = "Record" /\ now' = now /\ idxKind = "memory") =>
          LET table == memRecordAll(memTable(ret'.scope), ret'.hashes,
                                    ret'.cands[1].ID, now)
          IN  IF memGCStarts(ops, table)
              THEN \A n \in memGCExamined(table, now) : n <= indexScanGC
              ELSE byKey'[ret'.scope] = table]_vars

(***************************************************************************)
(* SpecResolve: getRequestDetails applied to model names put together from *)
(* a provider part, a model and a suffix.                                  *)
(***************************************************************************)

\* "Compat"
StrCompatUpper ==
    <<67, 111, 109, 112, 97, 116>>
\* "m1"
StrM1 ==
    <<109, 49>>
\* "a://b"
StrNested ==
    <<97, 58, 47, 47, 98>>
\* "-thinking-8", "-thinking-12", "-thinking-"
StrBudget8 == StrThinking \o <<56>>
StrBudget12 == StrThinking \o <<49, 50>>

\* The provider parts: none (no separator), and those followed by "://".
ResolveProviders == {<<>>, StrCompat, StrGeminiX, StrNope, StrCompatUpper}
ResolveModels == {StrM1, StrModel, StrGeminiPro, StrNested}
ResolveSuffixes == {<<>>, StrBudget8, StrBudget12, StrThinking}

\* The names: "model+suffix" and "provider://model+suffix".
ResolveNames ==
    {m \o s : m \in ResolveModels, s \in ResolveSuffixes} \cup
    {p \o StrSep \o m \o s :
        p \in ResolveProviders, m \in ResolveModels, s \in ResolveSuffixes}

InitResolve ==
    /\ idxKind = "memory"
    /\ offsets = EmptyMap
    /\ byKey = EmptyMap
    /\ ops = 0
    /\ rdb = EmptyMap
    /\ now = 0
    /\ ret \in {[op |-> "input", modelName |-> n] : n \in ResolveNames}
    /\ InitHist /\ NoStream /\ NoPipeline

Resolve ==
    /\ ret.op = "input"
    /\ LET d == getRequestDetails(ret.modelName) IN
       ret' = [op |-> "getRequestDetails", modelName |-> ret.modelName,
               providers |-> d.providers, normalizedModel |-> d.normalizedModel,
               metadata |-> d.metadata, err |-> d.err]
    /\ UNCHANGED <<coreVars, histVars, streamVars, callVars>>

NextResolve == Resolve

SpecResolve == InitResolve /\ [][NextResolve]_vars

\* The part of a name before its first "://" and the part after it.
providerPartOf(n) == SubSeq(n, 1, IndexOf(n, StrSep) - 1)
modelPartOf(n) == SubSeq(n, IndexOf(n, StrSep) + Len(StrSep), Len(n))

\* The name is P://M with P a configured OpenAI-compatibility provider.
isDynamicName(n) ==
    /\ IndexOf(n, StrSep) > 1
    /\ providerPartOf(n) \in OpenAICompatProviders

\* The result is that of P://M on the dynamic route.
dynamicResult(r) ==
    /\ r.err.nil
    /\ r.providers = <<providerPartOf(r.modelName)>>
    /\ r.normalizedModel = modelPartOf(r.modelName)

\* The result is that of an ordinary model name: the suffix is normalized
\* and the static table gives the providers, or the 400 error when it has
\* none.
ordinaryResult(r) ==
    LET norm == normalizeModelMetadata(r.modelName) IN
    IF GetProviderName(norm.model) = <<>>
    THEN ~r.err.nil /\ r.err.StatusCode = StatusBadRequest
    ELSE /\ r.err.nil
         /\ r.providers = GetProviderName(norm.model)
         /\ r.normalizedModel = norm.model
         /\ r.metadata = norm.metadata

\* C33: for a name P://M with P a configured OpenAI-compatibility provider
\* the resolution returns the providers [P] and the model M as written, and
\* no metadata derived from a suffix; with P empty or not configured the
\* whole name is resolved as an ordinary model name.
DynamicRoute ==
    ret.op = "getRequestDetails" =>
        IF isDynamicName(ret.modelName)
        THEN dynamicResult(ret) /\ ret.metadata = <<>>
        ELSE ordinaryResult(ret)

(***************************************************************************)
(* SpecHashes: extractMessageHashes applied to bodies whose "messages" are *)
(* up to MaxMsgs messages of several roles.                                *)
(***************************************************************************)

\* The messages arrays have up to MaxMsgs elements.
MaxMsgs == 3

\* "system", "tool", " System "
StrSystem ==
    <<115, 121, 115, 116, 101, 109>>
StrTool ==
    <<116, 111, 111, 108>>
StrSystemPadded ==
    <<32, 83, 121, 115, 116, 101, 109, 32>>

\* {"content": text}: a message without a role.
MessageNoRole(text) == JObject([m \in {"content"} |-> JString(text)])

HashRoles == {StrUser, StrSystemPadded, StrAssistant, StrTool}
HashTexts == {TextPrompt, TextFollowUp}
HashMessages ==
    {Message(r, x) : r \in HashRoles, x \in HashTexts} \cup
    {MessageNoRole(x) : x \in HashTexts}

\* The sequences of up to n messages.
RECURSIVE MessagesUpTo(_)
MessagesUpTo(n) ==
    IF n = 0 THEN {<<>>}
    ELSE LET shorter == MessagesUpTo(n - 1) IN
         shorter \cup {Append(s, mm) : s \in shorter, mm \in HashMessages}

InitHashes ==
    /\ idxKind = "memory"
    /\ offsets = EmptyMap
    /\ byKey = EmptyMap
    /\ ops = 0
    /\ rdb = EmptyMap
    /\ now = 0
    /\ ret \in {[op |-> "input", msgs |-> s] : s \in MessagesUpTo(MaxMsgs)}
    /\ InitHist /\ NoStream /\ NoPipeline

Extract ==
    /\ ret.op = "input"
    /\ ret' = [op |-> "extractMessageHashes", msgs |-> ret.msgs,
               hashes |-> extractMessageHashes(ChatBody(ret.msgs))]
    /\ UNCHANGED <<coreVars, histVars, streamVars, callVars>>

NextHashes == Extract

SpecHashes == InitHashes /\ [][NextHashes]_vars

\* The hash of each text, computed once.
TextHash == [x \in HashTexts |-> hash64(normalizeText(x))]

\* The message counts: its role, trimmed and in lower case, is "user" or
\* "system", or it has no role.
counts(mm) ==
    \/ "role" \notin DOMAIN mm.f
    \/ ToLower(TrimSpace(mm.f["role"].s)) \in {StrUser, StrSystem}

\* The positions of the messages that count, in order.
countedAt(msgs) == {i \in 1..Len(msgs) : counts(msgs[i])}

\* C34: the list extractMessageHashes returns holds exactly the hashes of
\* the messages whose role is missing, user or system (messages of another
\* role, wherever they stand, add and remove nothing), holds none of them
\* twice, and has them in the order of their first occurrence.
OnlyUserSystem ==
    ret.op = "extractMessageHashes" =>
        LET at == countedAt(ret.msgs)
            first(h) == CHOOSE i \in at :
                           /\ TextHash[ret.msgs[i].f["content"].s] = h
                           /\ \A j \in at : TextHash[ret.msgs[j].f["content"].s] = h => i <= j
        IN  /\ {ret.hashes[k] : k \in 1..Len(ret.hashes)} =
                  {TextHash[ret.msgs[i].f["content"].s] : i \in at}
            /\ \A k, l \in 1..Len(ret.hashes) :
                  k < l => /\ ret.hashes[k] # ret.hashes[l]
                           /\ first(ret.hashes[k]) < first(ret.hashes[l])

\* An assistant message with another text stands between two user messages
\* with the same text: the list is the one hash of the user text.
OtherRolesSkipped ==
    /\ ret.op = "extractMessageHashes"
    /\ ret.msgs = <<Message(StrUser, TextPrompt), Message(StrAssistant, TextFollowUp),
                    Message(StrUser, TextPrompt)>>
    /\ ret.hashes = <<TextHash[TextPrompt]>>

(***************************************************************************)
(* SpecCancel: Pick calls of a caller whose ctx can be cancelled before    *)
(* any of them.  Pick names its context parameter "_" (line 41): nothing   *)
(* in Pick reads it.                                                       *)
(***************************************************************************)

CancelRequests == {"turn1", "turn2", "short"}
CancelLists == {<<A, B>>, <<Ad, B>>}

InitCancel == InitSelector({"memory", "redis"}) /\ InitHist /\ NoStream /\ NoPipeline

\* The caller cancels the ctx it passes to Pick.
CancelCtx ==
    /\ ~ctxDone
    /\ ctxDone' = TRUE
    /\ UNCHANGED <<coreVars, ret, histVars, callVars, chunks, chunksOpen, emitted, fwd,
                   dataOpen, errChan, delivered, receiving, closed, lateSend>>

\* Pick(ctx, provider, model, opts, auths), ctx cancelled or not.
CancelPick ==
    \E provider \in Providers, req \in CancelRequests, auths \in CancelLists :
        /\ Pick(provider, StrModel, req, auths)
        /\ UNCHANGED <<histVars, streamVars, callVars>>

NextCancel == CancelCtx \/ CancelPick

SpecCancel == InitCancel /\ [][NextCancel]_vars

\* C35: a Pick that is called with a ctx that is already cancelled applies
\* no Record: it leaves the bindings of both indexes as they were.
NoRecordAfterCancel ==
    [][(ctxDone /\ ret'.op = "Pick") => (byKey' = byKey /\ rdb' = rdb)]_vars

\* C36: a Record of the Redis index that runs while GET or SET fails leaves
\* the AuthID and the Count of every binding that exists as they were (the
\* steps of SpecFault that leave down alone are the Pick calls, and Record
\* is called from Pick).
FaultedRecordNoOp ==
    [][(down' = down /\ down \cap {"GET", "SET"} # {}) =>
          \A k \in DOMAIN rdb :
             /\ k \in DOMAIN rdb'
             /\ rdb'[k].val.AuthID = rdb[k].val.AuthID
             /\ rdb'[k].val.Count = rdb[k].val.Count]_vars

(***************************************************************************)
(* SpecNone: Pick called with candidate lists some of which hold no        *)
(* non-nil, non-Disabled auth, on either index.                            *)
(***************************************************************************)

NoneRequests == {"turn1", "turn2", "empty"}
NoneLists == {<<>>, <<Nil>>, <<Ad>>, <<Nil, Ad>>, <<A, B>>}

InitNone == InitSelector({"memory", "redis"}) /\ InitHist /\ NoStream /\ NoPipeline

NonePick ==
    \E provider \in Providers, req \in NoneRequests, auths \in NoneLists :
        /\ Pick(provider, StrModel, req, auths)
        /\ UNCHANGED <<histVars, streamVars, callVars>>

NextNone == NonePick

SpecNone == InitNone /\ [][NextNone]_vars

\* C37: a Pick whose candidate list holds no non-nil, non-Disabled auth
\* returns no auth and the auth_not_found error, and leaves the round-robin
\* cursors, the bindings of both indexes and the operation counter as they
\* were.
NoCandidateNoEffect ==
    [][(ret'.op = "Pick" /\ enabledIDs(ret'.cands) = {}) =>
          /\ ret'.path = "auth_not_found"
          /\ ret'.auth = Nil
          /\ UNCHANGED coreVars]_vars

\* A Pick with the candidates [nil, A disabled] has failed while the index
\* holds bindings and a cursor has been advanced by earlier calls.
FailedOnUsedSelector ==
    /\ ret.op = "Pick"
    /\ ret.cands = <<Nil, Ad>>
    /\ ret.path = "auth_not_found"
    /\ offsets # EmptyMap
    /\ (byKey # EmptyMap \/ rdb # EmptyMap)

(***************************************************************************)
(* SpecKeep: Record calls on the in-process index, one more hash than the  *)
(* cap in one scope and one hash in another scope, while time passes.  A   *)
(* hash is recorded when the index holds no binding for it (the GC does    *)
(* not read Count).                                                        *)
(***************************************************************************)

InitKeep == InitSelector({"memory"}) /\ InitHist /\ NoStream /\ NoPipeline

KeepRecord ==
    \E i \in 1..(indexMaxPerScope + 1) :
        /\ ~stored(ScopeA, HashOf(i))
        /\ Record(ScopeA, <<HashOf(i)>>, IdA)
        /\ UNCHANGED <<histVars, streamVars, callVars>>

KeepOther ==
    /\ ~stored(ScopeB, HashOf(1))
    /\ Record(ScopeB, <<HashOf(1)>>, IdB)
    /\ UNCHANGED <<histVars, streamVars, callVars>>

KeepTick == Tick /\ UNCHANGED <<histVars, streamVars, callVars>>

NextKeep == KeepRecord \/ KeepOther \/ KeepTick

SpecKeep == InitKeep /\ [][NextKeep]_vars

\* C38: of the bindings a Record of the in-process index finds in its
\* scope's table or puts there, it deletes none whose LastSeen is within
\* indexTTL/2 of now; while that table holds at most indexMaxPerScope
\* bindings it deletes only bindings older than indexTTL; the bindings it
\* does not delete stay as the call's loop left them; and it leaves the
\* table of every other scope as it was.
GCKeepsFresh ==
    [][(ret'.op = "Record" /\ now' = now) =>
          LET table   == memRecordAll(memTable(ret'.scope), ret'.hashes,
                                      ret'.cands[1].ID, now)
              after   == byKey'[ret'.scope]
              deleted == DOMAIN table \ DOMAIN after
              expired == {k \in deleted : now - table[k].LastSeen > indexTTL}
          IN  /\ \A k \in deleted : 2 * (now - table[k].LastSeen) > indexTTL
              /\ Cardinality(DOMAIN table) <= indexMaxPerScope => deleted = expired
              /\ \A k \in DOMAIN after : k \in DOMAIN table /\ after[k] = table[k]
              /\ DOMAIN byKey' = DOMAIN byKey \cup {ret'.scope}
              /\ \A sc \in DOMAIN byKey \ {ret'.scope} : byKey'[sc] = byKey[sc]]_vars

\* A Record of one more hash has brought scope A's table back to the cap,
\* the new binding is in it, and scope B still holds a binding older than
\* indexTTL.
GCLeftOtherScope ==
    /\ ret.op = "Record"
    /\ ret.scope = ScopeA
    /\ ret.hashes = <<HashOf(indexMaxPerScope + 1)>>
    /\ ScopeA \in DOMAIN byKey /\ ScopeB \in DOMAIN byKey
    /\ Cardinality(DOMAIN byKey[ScopeA]) = indexMaxPerScope
    /\ HashOf(indexMaxPerScope + 1) \in DOMAIN byKey[ScopeA]
    /\ byKey[ScopeA][HashOf(indexMaxPerScope + 1)] = Binding(IdA, 1, now)
    /\ HashOf(1) \in DOMAIN byKey[ScopeB]
    /\ now - byKey[ScopeB][HashOf(1)].LastSeen > indexTTL

(***************************************************************************)
(* SpecRace: up to MaxRacers goroutines call Record(scope A, [h1, h2], A)  *)
(* at the same time on an empty index.  The in-process Record runs under   *)
(* idx.mu from its first read to its last write (lines 233-289): one step. *)
(* The Redis Record holds no lock: each GET and each SET is a step of its  *)
(* own (part_001:169 and 193).                                             *)
(***************************************************************************)

\* At most MaxRacers calls run at the same time.
MaxRacers == 3

RaceHashes == <<HashOf(1), HashOf(2)>>

\* A racer's position: 2(i-1) before the GET of hash i, 2(i-1)+1 before its
\* SET, RaceEnd when the call has returned.
RaceEnd == 2 * Len(RaceHashes)

\* What a racer read last and made of it (the local b of lines 167-190).
raceUpdate(b, authID, t) ==
    IF TrimSpace(b.AuthID) = authID
    THEN Binding(b.AuthID, (IF b.Count < 0 THEN 0 ELSE b.Count) + 1, t)
    ELSE IF TrimSpace(b.AuthID) = <<>>
    THEN Binding(authID, 1, t)
    ELSE IF b.Count - 1 <= 0
    THEN Binding(authID, 1, t)
    ELSE Binding(b.AuthID, b.Count - 1, t)

InitRace ==
    /\ idxKind \in {"memory", "redis"}
    /\ offsets = EmptyMap
    /\ byKey = EmptyMap
    /\ ops = 0
    /\ rdb = EmptyMap
    /\ now = 0
    /\ ret \in {[op |-> "race", n |-> n, pc |-> [p \in 1..n |-> 0],
                 b |-> [p \in 1..n |-> zeroBinding]] : n \in 1..MaxRacers}
    /\ InitHist /\ NoStream /\ NoPipeline

\* messageIndex.Record, from Lock to Unlock.
RaceLocked(p) ==
    /\ idxKind = "memory"
    /\ ret.pc[p] = 0
    /\ \E out \in memRecord(ScopeA, RaceHashes, IdA) :
          /\ byKey' = out.byKey
          /\ ops' = out.ops
    /\ ret' = [ret EXCEPT !.pc[p] = RaceEnd]
    /\ UNCHANGED <<idxKind, offsets, rdb, now, histVars, streamVars, callVars>>

\* redisMessageIndex.Record: the GET of the next hash and the update of b.
RaceGet(p) ==
    /\ idxKind = "redis"
    /\ ret.pc[p] < RaceEnd
    /\ ret.pc[p] % 2 = 0
    /\ LET h == RaceHashes[(ret.pc[p] \div 2) + 1]
           b == IF "GET" \in down THEN zeroBinding ELSE redisGet(rdb, key(ScopeA, h))
       IN  ret' = [ret EXCEPT !.pc[p] = @ + 1, !.b[p] = raceUpdate(b, IdA, now)]
    /\ UNCHANGED <<coreVars, histVars, streamVars, callVars>>

\* redisMessageIndex.Record: the SET of the hash just read.
RaceSet(p) ==
    /\ idxKind = "redis"
    /\ ret.pc[p] < RaceEnd
    /\ ret.pc[p] % 2 = 1
    /\ LET h == RaceHashes[(ret.pc[p] \div 2) + 1]
       IN  rdb' = IF "SET" \in down THEN rdb
                  ELSE Put(rdb, key(ScopeA, h), [val |-> ret.b[p], exp |-> now + indexTTL])
    /\ ret' = [ret EXCEPT !.pc[p] = @ + 1]
    /\ UNCHANGED <<idxKind, offsets, byKey, ops, now, histVars, streamVars, callVars>>

NextRace ==
    \/ \E p \in 1..ret.n : RaceLocked(p)
    \/ \E p \in 1..ret.n : RaceGet(p)
    \/ \E p \in 1..ret.n : RaceSet(p)

SpecRace == InitRace /\ [][NextRace]_vars

\* Every call has returned.
raceOver == ret.op = "race" /\ \A p \in 1..ret.n : ret.pc[p] = RaceEnd

\* C39: when n concurrent Record calls for the same scope, hashes and authID
\* on an empty index have all returned, each hash is bound to that authID
\* with Count = n, on the in-process index and on the Redis index.
NoLostUpdate ==
    raceOver =>
        \A i \in 1..Len(RaceHashes) :
            /\ binding(ScopeA, RaceHashes[i]).AuthID = IdA
            /\ binding(ScopeA, RaceHashes[i]).Count = ret.n

\* The same of the in-process index alone.
NoLostUpdateLocked ==
    idxKind = "memory" => NoLostUpdate

(***************************************************************************)
(* SpecDrain: the forwarding goroutine of ExecuteStreamWithAuthManager     *)
(* with its return taken apart (the send on errChan, then the deferred     *)
(* close(errChan), then the deferred close(dataChan): deferred calls run   *)
(* last in, first out), and a caller that receives from dataChan until it  *)
(* is closed and only then receives once from errChan.                     *)
(***************************************************************************)

\* An error test that never finds an error.
chunkFailedNever(chunk) == FALSE

\* chunk.Err != nil (line 302)
chunkFailed(chunk) == ~chunk.Err.nil

\* The caller: receiving from dataChan ("data"), about to receive from
\* errChan ("err"), or done with what it got from errChan ("got").
Drain(phase, got) == [op |-> "drain", phase |-> phase, got |-> got]

InitDrain ==
    /\ idxKind = "memory"
    /\ offsets = EmptyMap
    /\ byKey = EmptyMap
    /\ ops = 0
    /\ rdb = EmptyMap
    /\ now = 0
    /\ ret = Drain("data", NoMessage)
    /\ InitHist /\ StreamStarted /\ StreamPipeline

DrainUpstreamSend ==
    \E c \in ChunkKinds :
        UpstreamSend(c) /\ UNCHANGED <<coreVars, ret, histVars, down, objs>>

DrainUpstreamClose ==
    UpstreamClose /\ UNCHANGED <<coreVars, ret, histVars, down, objs>>

\* for chunk := range chunks (lines 301-321): one turn, up to the send on
\* errChan (line 315), up to the send on dataChan (line 319), or out of the
\* loop.
DrainRange ==
    /\ fwd = "range"
    /\ ~(chunks = <<>> /\ chunksOpen)
    /\ IF chunks = <<>>
       THEN /\ fwd' = "closeErr"
            /\ UNCHANGED <<chunks, errChan, mem, hdrs, pipe>>
       ELSE IF chunkFailed(Head(chunks))
       THEN LET em == errorMessage(hdrs, Head(chunks).Err) IN
            /\ Len(errChan.buf) < chanCap("err")
            /\ chunks' = Tail(chunks)
            /\ hdrs' = em.hdrs
            /\ errChan' = [errChan EXCEPT !.buf = Append(@, em.msg)]
            /\ fwd' = "closeErr"
            /\ UNCHANGED <<mem, pipe>>
       ELSE IF hasPayload(mem, Head(chunks))
       THEN LET cl == cloneBytes(mem, Head(chunks).Payload) IN
            /\ chunks' = Tail(chunks)
            /\ mem' = cl.mem
            /\ pipe' = [pipe EXCEPT !.resp = Head(chunks).Payload,
                                    !.got = mem[Head(chunks).Payload],
                                    !.out = cl.ptr,
                                    !.touched = @ \ {"resp", "out"}]
            /\ fwd' = "send"
            /\ UNCHANGED <<errChan, hdrs>>
       ELSE /\ chunks' = Tail(chunks)
            /\ UNCHANGED <<fwd, errChan, mem, hdrs, pipe>>
    /\ UNCHANGED <<coreVars, ret, histVars, down, objs, chunksOpen, emitted, dataOpen,
                   delivered, ctxDone, receiving, closed, lateSend, mgr>>

DrainSend == FwdSend /\ UNCHANGED <<coreVars, ret, histVars, down, objs>>

\* defer close(errChan) (line 300): the first deferred call to run.
DrainCloseErr ==
    /\ fwd = "closeErr"
    /\ errChan' = [errChan EXCEPT !.open = FALSE]
    /\ closed' = [closed EXCEPT !.err = deferredClose(@)]
    /\ fwd' = "closeData"
    /\ UNCHANGED <<coreVars, ret, histVars, callVars, chunks, chunksOpen, emitted,
                   dataOpen, delivered, ctxDone, receiving, lateSend>>

\* defer close(dataChan) (line 299): the last deferred call to run.
DrainCloseData ==
    /\ fwd = "closeData"
    /\ dataOpen' = FALSE
    /\ closed' = [closed EXCEPT !.data = deferredClose(@)]
    /\ fwd' = "done"
    /\ UNCHANGED <<coreVars, ret, histVars, callVars, chunks, chunksOpen, emitted,
                   errChan, delivered, ctxDone, receiving, lateSend>>

\* The caller's receive from dataChan finds it closed.
DrainSeesClosed ==
    /\ ret.phase = "data"
    /\ ~dataOpen
    /\ ret' = Drain("err", NoMessage)
    /\ receiving' = FALSE
    /\ UNCHANGED <<coreVars, histVars, callVars, chunks, chunksOpen, emitted, fwd,
                   dataOpen, errChan, delivered, ctxDone, closed, lateSend>>

\* The caller's receive from errChan: the message in the buffer, nil from
\* the closed and empty channel; it blocks while errChan is open and empty.
DrainRecvErr ==
    /\ ret.phase = "err"
    /\ IF errChan.buf # <<>>
       THEN /\ ret' = Drain("got", Head(errChan.buf))
            /\ errChan' = [errChan EXCEPT !.buf = Tail(@)]
       ELSE /\ ~errChan.open
            /\ ret' = Drain("got", NoMessage)
            /\ UNCHANGED errChan
    /\ UNCHANGED <<coreVars, histVars, callVars, chunks, chunksOpen, emitted, fwd,
                   dataOpen, delivered, ctxDone, receiving, closed, lateSend>>

NextDrain ==
    \/ DrainUpstreamSend
    \/ DrainUpstreamClose
    \/ DrainRange
    \/ DrainSend
    \/ DrainCloseErr
    \/ DrainCloseData
    \/ DrainSeesClosed
    \/ DrainRecvErr

SpecDrain == InitDrain /\ [][NextDrain]_vars

\* The goroutine has taken an error chunk from the manager.
endedWithError ==
    \E i \in 1..(emitted - Len(chunks)) : pipe.up[i].kind = "err"

\* C40: once dataChan is closed, errChan holds the ErrorRecord of a stream
\* that ended with an upstream error until the caller takes it; a caller
\* that receives from errChan after it has found dataChan closed gets that
\* ErrorRecord, and gets nil exactly when the stream ended without error.
ErrorBeforeClose ==
    /\ (~dataOpen /\ ret.phase \in {"data", "err"} /\ endedWithError)
          => (Len(errChan.buf) = 1 /\ ~errChan.buf[1].nil /\ ~errChan.open)
    /\ ret.phase = "got" =>
          IF endedWithError
          THEN ~ret.got.nil /\ ret.got.StatusCode = 429
          ELSE ret.got.nil

\* The caller has received a payload, found dataChan closed and then got the
\* ErrorRecord from errChan.
ErrorAfterDrain ==
    /\ ret.phase = "got"
    /\ delivered >= 1
    /\ ~ret.got.nil
    /\ ~dataOpen

=============================================================================
